---- MODULE Spec2Model ----
(***************************************************************************)
(* Context Processing, Create Term Definition, IRI Expansion and IRI       *)
(* Compaction of the json-ld crate (src/context/processing.rs,             *)
(* src/compaction/iri.rs), as a state machine over one caller-owned active *)
(* context, one processing stack and one loader.                           *)
(*                                                                         *)
(* The three mutually recursive functions process_context, define and      *)
(* expand_iri are RECURSIVE operators computed statement by statement; a   *)
(* record `m` carries what the Rust code holds in `&mut` arguments         *)
(* (active_context, defined) together with the pending error.              *)
(***************************************************************************)
EXTENDS Integers, Sequences, FiniteSets, TLC

VARIABLES active, call, outcome, stack, pushed, calls

vars == <<active, call, outcome, stack, pushed, calls>>

(***************************************************************************)
(* Bounds of the model.                                                    *)
(***************************************************************************)
\* Number of operations in one behaviour.
MaxCalls == 2

(***************************************************************************)
(* Strings.  Rust's str operations, on TLA+ strings.                       *)
(***************************************************************************)
Chr(s, i) == SubSeq(s, i, i)

\* str::find(c): index of the first occurrence (1-based), 0 when absent.
Find(s, c) ==
  LET hits == {i \in 1..Len(s) : Chr(s, i) = c}
  IN  IF hits = {} THEN 0 ELSE CHOOSE i \in hits : \A j \in hits : i <= j

\* str::rfind(c): index of the last occurrence (1-based), 0 when absent.
RFind(s, c) ==
  LET hits == {i \in 1..Len(s) : Chr(s, i) = c}
  IN  IF hits = {} THEN 0 ELSE CHOOSE i \in hits : \A j \in hits : i >= j

Contains(s, c) == Find(s, c) > 0

StartsWith(s, p) == Len(p) <= Len(s) /\ SubSeq(s, 1, Len(p)) = p

\* str::strip_prefix, the part after p (the caller tests StartsWith first).
StripPrefix(s, p) == SubSeq(s, Len(p) + 1, Len(s))

LastChr(s) == Chr(s, Len(s))

Alpha ==
  {"a","b","c","d","e","f","g","h","i","j","k","l","m","n","o","p","q","r",
   "s","t","u","v","w","x","y","z","A","B","C","D","E","F","G","H","I","J",
   "K","L","M","N","O","P","Q","R","S","T","U","V","W","X","Y","Z"}

Digit == {"0","1","2","3","4","5","6","7","8","9"}

is_gen_delim(c) == c \in {":", "/", "?", "#", "[", "]", "@"}

contains_after_first(id, c) == Find(id, c) > 1

contains_between_boundaries(id, c) ==
  LET i == Find(id, c)
      j == RFind(id, c)
  IN  i > 0 /\ i > 1 /\ j < Len(id)

(***************************************************************************)
(* Keywords (syntax::Keyword, is_keyword, is_keyword_like).                *)
(***************************************************************************)
Keywords ==
  {"@base", "@container", "@context", "@direction", "@graph", "@id",
   "@import", "@included", "@index", "@json", "@language", "@list", "@nest",
   "@none", "@prefix", "@propagate", "@protected", "@reverse", "@set",
   "@type", "@value", "@version", "@vocab"}

is_keyword(s) == s \in Keywords

is_keyword_like(s) ==
  /\ Len(s) > 1
  /\ Chr(s, 1) = "@"
  /\ \A i \in 2..Len(s) : Chr(s, i) \in Alpha

(***************************************************************************)
(* IRIs (the iref library, as the code uses it).                           *)
(***************************************************************************)
\* Characters no IRI reference may contain.
IriForbidden == {" ", "<", ">"}

\* IriRef::new(s) is Ok.
IsIriRef(s) == \A i \in 1..Len(s) : Chr(s, i) \notin IriForbidden

\* Iri::new(s) is Ok: a scheme, a colon, then an IRI reference.
IsIri(s) ==
  LET i == Find(s, ":")
  IN  /\ i > 1
      /\ Chr(s, 1) \in Alpha
      /\ \A j \in 2..(i - 1) : Chr(s, j) \in Alpha \cup Digit \cup {"+", "-", "."}
      /\ IsIriRef(s)

\* Iri::scheme.
Scheme(s) == SubSeq(s, 1, Find(s, ":") - 1)

\* IriRef::resolved(base) for the references of the model: an absolute IRI,
\* the empty reference, or a relative path without dot segments, query or
\* fragment, against a hierarchical base.
Resolved(ref, base) ==
  IF IsIri(ref) THEN ref
  ELSE IF ref = "" THEN base
  ELSE LET a == Find(base, ":") + 3
           tail == SubSeq(base, a, Len(base))
       IN  IF ~Contains(tail, "/") THEN base \o "/" \o ref
           ELSE SubSeq(base, 1, RFind(base, "/")) \o ref

\* Option<T>: the empty sequence is None, <<x>> is Some(x).
None == <<>>
Some(x) == <<x>>
IsSome(o) == o # <<>>
Get(o) == o[1]

resolve_iri(iri_ref, base_iri) ==
  IF IsSome(base_iri) THEN Some(Resolved(iri_ref, Get(base_iri)))
  ELSE IF IsIri(iri_ref) THEN Some(iri_ref)
  ELSE None

(***************************************************************************)
(* JSON values (json::JsonValue).  An object is the sequence of its        *)
(* members in insertion order.                                             *)
(***************************************************************************)
JNull == [t |-> "null", s |-> "", b |-> FALSE, m |-> <<>>]
JStr(x) == [t |-> "str", s |-> x, b |-> FALSE, m |-> <<>>]
JBool(x) == [t |-> "bool", s |-> "", b |-> x, m |-> <<>>]
JNum(x) == [t |-> "num", s |-> x, b |-> FALSE, m |-> <<>>]
JArr(items) == [t |-> "arr", s |-> "", b |-> FALSE, m |-> items]
JObj(members) == [t |-> "obj", s |-> "", b |-> FALSE, m |-> members]

\* JsonObject::get(key) as an Option.
ObjGet(members, key) ==
  LET hits == {i \in 1..Len(members) : members[i][1] = key}
  IN  IF hits = {} THEN None ELSE Some(members[CHOOSE i \in hits : TRUE][2])

ObjKeys(members) == {members[i][1] : i \in 1..Len(members)}

\* JsonValue::as_str as an Option.
as_str(v) == IF v.t = "str" THEN Some(v.s) ELSE None

\* util::as_array.
as_array(v) == IF v.t = "arr" THEN v.m ELSE <<v>>

(***************************************************************************)
(* Terms (syntax::Term, Lenient<Term>).  v is the term's as_str(): a       *)
(* keyword, an IRI, a blank node identifier with its "_:" prefix.          *)
(***************************************************************************)
Tkw(s) == [k |-> "keyword", v |-> s]
Tiri(s) == [k |-> "iri", v |-> s]
Tblank(suffix) == [k |-> "blank", v |-> "_:" \o suffix]
Tnull == [k |-> "null", v |-> ""]
\* Lenient::Unknown(s); every other term t stands for Lenient::Ok(t).
Unknown(s) == [k |-> "unknown", v |-> s]

\* Term::Ref(_).
IsRef(t) == t.k \in {"iri", "blank"}

\* BlankId::try_from(s) is Ok.
IsBlankId(s) == StartsWith(s, "_:")

\* The term a concatenation `result` denotes (lines 1275-1283, 1303-1311).
TermOfString(result) ==
  IF IsIri(result) THEN Tiri(result)
  ELSE IF IsBlankId(result) THEN [k |-> "blank", v |-> result]
  ELSE Unknown(result)

is_gen_delim_or_blank(t) ==
  CASE t.k = "keyword" -> FALSE
    [] t.k = "blank" -> TRUE
    [] t.k = "iri" -> Len(t.v) > 0 /\ is_gen_delim(LastChr(t.v))
    [] OTHER -> FALSE

\* TryFrom<Term> for Type: Some(type) or None.
TypeOfTerm(t) ==
  IF t.k = "keyword" /\ t.v \in {"@id", "@vocab", "@json", "@none"} THEN Some(t.v)
  ELSE IF t.k = "iri" THEN Some(t.v)
  ELSE None

(***************************************************************************)
(* Container mappings (syntax::Container, ContainerType).                  *)
(***************************************************************************)
ContainerTypes ==
  {"@graph", "@id", "@index", "@language", "@list", "@set", "@type"}

\* The combinations the Container enumeration has a variant for.
ValidContainers ==
  {{}} \cup {{c} : c \in ContainerTypes} \cup
  {{"@graph", "@set"}, {"@graph", "@id"}, {"@graph", "@index"},
   {"@id", "@set"}, {"@index", "@set"}, {"@language", "@set"},
   {"@set", "@type"}, {"@graph", "@id", "@set"}, {"@graph", "@index", "@set"}}

\* Container::add(c) succeeds.
ContainerCanAdd(container, c) == (container \cup {c}) \in ValidContainers

(***************************************************************************)
(* Term definitions and active contexts (TermDefinition, Context,          *)
(* ContextMut).                                                            *)
(***************************************************************************)
DefaultDefinition ==
  [value |-> None, prefix |-> FALSE, protected |-> FALSE,
   reverse_property |-> FALSE, typ |-> None, language |-> None,
   direction |-> None, context |-> None, base_url |-> None,
   nest |-> None, index |-> None, container |-> {}]

\* PartialEq for TermDefinition: every field but `protected`.
DefinitionEq(a, b) ==
  [a EXCEPT !.protected = FALSE] = [b EXCEPT !.protected = FALSE]

NoDefinitions == [t \in {} |-> DefaultDefinition]

\* C::new(base_iri).
NewContext(base) ==
  [defs |-> NoDefinitions, base_iri |-> base, original_base_url |-> base,
   vocabulary |-> None, default_language |-> None,
   default_base_direction |-> None, previous_context |-> None]

\* Context::get(term) as an Option.
CtxGet(ctx, term) ==
  IF term \in DOMAIN ctx.defs THEN Some(ctx.defs[term]) ELSE None

\* ContextMut::set(term, definition): the context afterwards.
CtxSet(ctx, term, definition) ==
  IF IsSome(definition)
  THEN [ctx EXCEPT !.defs =
          [t \in DOMAIN ctx.defs \cup {term} |->
             IF t = term THEN Get(definition) ELSE ctx.defs[t]]]
  ELSE [ctx EXCEPT !.defs = [t \in DOMAIN ctx.defs \ {term} |-> ctx.defs[t]]]

has_protected_items(active_context) ==
  \E t \in DOMAIN active_context.defs : active_context.defs[t].protected

(***************************************************************************)
(* Options (ProcessingOptions).                                            *)
(***************************************************************************)
with_override(options) == [options EXCEPT !.override_protected = TRUE]
with_no_override(options) == [options EXCEPT !.override_protected = FALSE]

\* LanguageTagBuf::parse_copy(s) is Ok.
IsLanguageTag(s) ==
  /\ Len(s) > 0
  /\ Chr(s, 1) \in Alpha
  /\ \A i \in 1..Len(s) : Chr(s, i) \in Alpha \cup Digit \cup {"-"}

(***************************************************************************)
(* ProcessingStack: the sequence of the frames' URLs, head first.          *)
(***************************************************************************)
RECURSIVE StackNodeContains(_, _)
\* StackNode::contains, on the frames from the head down.
StackNodeContains(frames, url) ==
  IF frames = <<>> THEN FALSE
  ELSE IF Head(frames) = url THEN TRUE
  ELSE StackNodeContains(Tail(frames), url)

\* ProcessingStack::new.
NewStack == <<>>

\* ProcessingStack::is_empty.
is_empty(frames) == frames = <<>>

\* ProcessingStack::cycle.
cycle(frames, url) == StackNodeContains(frames, url)

\* push that also pushes a URL already in the stack.
push_always(frames, url) == [ret |-> TRUE, stack |-> <<url>> \o frames]

\* ProcessingStack::push: the value returned and the stack afterwards.
push(frames, url) ==
  IF cycle(frames, url) THEN [ret |-> FALSE, stack |-> frames]
  ELSE [ret |-> TRUE, stack |-> <<url>> \o frames]

(***************************************************************************)
(* What the recursion carries.                                             *)
(*   m: the `&mut` state of define and expand_iri: the active context, the *)
(*      defined map, the error returned so far ("" while running), the     *)
(*      value expand_iri returns, and counters about the run (inst).       *)
(*   e: the arguments passed by value: local context (members), remote     *)
(*      contexts, base URL, protected, options, the arguments of the       *)
(*      enclosing process_context calls and the URLs they dereferenced.    *)
(***************************************************************************)
\* Ways a call ends that are not an Err(code): they unwind through every
\* caller, `if let Err(_)` of line 1045 included.  A process_context call
\* nested in a call with the same arguments recurses without end, which
\* exhausts the call stack.
Aborts == {"stack-overflow", "panic"}

NoInst == [loads |-> 0, rederef |-> FALSE]

NoDefined == [t \in {} |-> FALSE]

DefinedSet(defined, term, b) ==
  [t \in DOMAIN defined \cup {term} |-> IF t = term THEN b ELSE defined[t]]

Fail(d, code) == [d EXCEPT !.m.err = code]
Live(d) == d.m.err = "" /\ ~d.done

\* The arguments of the nested define calls of lines 871, 1215, 1264.
Lazy(e) ==
  [e EXCEPT !.base_url = None, !.protected = FALSE,
            !.options = with_no_override(e.options)]

\* Lines 627-650: the value as a map, None when it is no null, string or map.
NormalizedValue(value) ==
  CASE value.t = "null" -> Some(<<<<"@id", JNull>>>>)
    [] value.t = "str" -> Some(<<<<"@id", value>>>>)
    [] value.t = "obj" -> Some(value.m)
    [] OTHER -> None

RECURSIVE process_context(_, _, _, _)
RECURSIVE define(_, _, _)
RECURSIVE expand_iri(_, _, _, _, _)

\* The keyword check that lets every keyword be defined like @type.
DefineKeywordCheckAnyKeyword(d, term, e) ==
  LET value == Get(ObjGet(e.lc, term))
      d1 == [d EXCEPT !.m.defined = DefinedSet(@, term, FALSE)]
  IN  IF is_keyword(term)
      THEN IF e.options.processing_mode = "json-ld-1.0"
             THEN Fail(d1, "keyword-redefinition")
           ELSE IF value.t # "obj" \/ value.m = <<>>
             THEN Fail(d1, "keyword-redefinition")
           ELSE IF \A i \in 1..Len(value.m) :
                     \/ value.m[i][1] = "@container" /\ value.m[i][2] = JStr("@set")
                     \/ value.m[i][1] = "@protected"
             THEN d1
           ELSE Fail(d1, "keyword-redefinition")
      ELSE IF is_keyword_like(term) THEN [d1 EXCEPT !.done = TRUE]
      ELSE d1

\* Lines 575-620: mark the term as being defined; keywords as terms.
DefineKeywordCheck(d, term, e) ==
  LET value == Get(ObjGet(e.lc, term))
      d1 == [d EXCEPT !.m.defined = DefinedSet(@, term, FALSE)]
  IN  IF term = "@type"
      THEN IF e.options.processing_mode = "json-ld-1.0"
             THEN Fail(d1, "keyword-redefinition")
           ELSE IF value.t # "obj" \/ value.m = <<>>
             THEN Fail(d1, "keyword-redefinition")
           ELSE IF \A i \in 1..Len(value.m) :
                     \/ value.m[i][1] = "@container" /\ value.m[i][2] = JStr("@set")
                     \/ value.m[i][1] = "@protected"
             THEN d1
           ELSE Fail(d1, "keyword-redefinition")
      ELSE IF is_keyword(term) THEN Fail(d1, "keyword-redefinition")
      ELSE IF is_keyword_like(term) THEN [d1 EXCEPT !.done = TRUE]
      ELSE d1

\* Line 624: remove the term's definition, remembering it.
DefineRemovePrevious(d, term) ==
  IF ~Live(d) THEN d
  ELSE [d EXCEPT !.prev = CtxGet(d.m.ctx, term),
                 !.m.ctx = CtxSet(d.m.ctx, term, None)]

\* Lines 626-673: the value's form, and its @protected entry.
DefineProtected(d, term, e) ==
  IF ~Live(d) THEN d
  ELSE LET nv == NormalizedValue(Get(ObjGet(e.lc, term)))
       IN  IF ~IsSome(nv) THEN Fail(d, "invalid-term-definition")
           ELSE LET pv == ObjGet(Get(nv), "@protected")
                    d1 == [d EXCEPT !.def.protected = e.protected]
                IN  IF ~IsSome(pv) THEN d1
                    ELSE IF Get(pv).t # "bool" THEN Fail(d1, "invalid-@protected-value")
                    ELSE IF e.options.processing_mode = "json-ld-1.0"
                      THEN Fail([d1 EXCEPT !.def.protected = Get(pv).b],
                                "invalid-term-definition")
                    ELSE [d1 EXCEPT !.def.protected = Get(pv).b]

\* Lines 685-705: the type mapping, from the expanded @type entry (m1 is
\* what expand_iri left).
DefineTypeExpanded(d, m1, e) ==
  LET d1 == [d EXCEPT !.m = m1]
      typ == m1.ret
  IN  IF m1.err # "" THEN d1
      ELSE IF typ.k = "unknown" THEN Fail(d1, "invalid-type-mapping")
      ELSE IF /\ e.options.processing_mode = "json-ld-1.0"
              /\ typ \in {Tkw("@json"), Tkw("@none")}
        THEN Fail(d1, "invalid-type-mapping")
      ELSE IF IsSome(TypeOfTerm(typ))
        THEN [d1 EXCEPT !.def.typ = TypeOfTerm(typ)]
      ELSE Fail(d1, "invalid-type-mapping")

\* Lines 676-706: the @type entry.
DefineType(d, value, e) ==
  IF ~Live(d) \/ ~IsSome(ObjGet(value, "@type")) THEN d
  ELSE IF Get(ObjGet(value, "@type")).t # "str"
    THEN Fail(d, "invalid-type-mapping")
  ELSE DefineTypeExpanded(
         d, expand_iri(d.m, Get(ObjGet(value, "@type")).s, FALSE, TRUE, e), e)

\* The @container entry of a reverse property taken without looking at
\* which container it is.
DefineReverseContainerAny(d, value) ==
  IF ~IsSome(ObjGet(value, "@container")) THEN d
  ELSE LET container_value == Get(ObjGet(value, "@container"))
       IN  CASE container_value.t = "null" -> d
             [] container_value.t = "str" ->
                  [d EXCEPT !.def.container = @ \cup {container_value.s}]
             [] OTHER -> Fail(d, "invalid-reverse-property")

\* Lines 744-761: the @container entry of a reverse property.
DefineReverseContainer(d, value) ==
  IF ~IsSome(ObjGet(value, "@container")) THEN d
  ELSE LET container_value == Get(ObjGet(value, "@container"))
       IN  CASE container_value.t = "null" -> d
             [] container_value.t = "str" ->
                  IF container_value.s \in {"@set", "@index"}
                  THEN [d EXCEPT !.def.container = @ \cup {container_value.s}]
                  ELSE Fail(d, "invalid-reverse-property")
             [] OTHER -> Fail(d, "invalid-reverse-property")

\* Lines 763-777: the reverse definition is installed and define returns.
DefineReverseInstall(d, term) ==
  IF d.m.err # "" THEN d
  ELSE [d EXCEPT
          !.def.reverse_property = TRUE,
          !.m.ctx = CtxSet(d.m.ctx, term,
                           Some([d.def EXCEPT !.reverse_property = TRUE])),
          !.m.defined = DefinedSet(@, term, TRUE),
          !.done = TRUE]

\* Lines 728-777: the IRI mapping of a reverse property, from the expanded
\* @reverse entry.
DefineReverseExpanded(d, m1, term, value) ==
  IF m1.err # "" THEN [d EXCEPT !.m = m1]
  ELSE IF ~IsRef(m1.ret) THEN Fail([d EXCEPT !.m = m1], "invalid-IRI-mapping")
  ELSE DefineReverseInstall(
         DefineReverseContainer(
           [d EXCEPT !.m = m1, !.def.value = Some(m1.ret)], value),
         term)

\* Lines 709-778: the @reverse entry.  A definition with @reverse is
\* installed here and define returns.
DefineReverse(d, term, value, e) ==
  IF ~Live(d) \/ ~IsSome(ObjGet(value, "@reverse")) THEN d
  ELSE IF IsSome(ObjGet(value, "@id")) \/ IsSome(ObjGet(value, "@nest"))
    THEN Fail(d, "invalid-reverse-property")
  ELSE IF Get(ObjGet(value, "@reverse")).t # "str"
    THEN Fail(d, "invalid-IRI-mapping")
  ELSE IF is_keyword_like(Get(ObjGet(value, "@reverse")).s)
    THEN [d EXCEPT !.done = TRUE]
  ELSE DefineReverseExpanded(
         d, expand_iri(d.m, Get(ObjGet(value, "@reverse")).s, FALSE, TRUE, e),
         term, value)

\* expansion::expand_iri: IRI expansion against an active context alone,
\* without a local context to define terms from.
expansion_expand_iri(active_context, value, document_relative, vocab) ==
  IF is_keyword(value) THEN Tkw(value)
  ELSE IF is_keyword_like(value) THEN Tnull
  ELSE
    LET td == CtxGet(active_context, value)
        i == Find(value, ":")
        prefix == SubSeq(value, 1, i - 1)
        suffix == SubSeq(value, i + 1, Len(value))
        pd == CtxGet(active_context, prefix)
        rest ==
          IF vocab /\ IsSome(active_context.vocabulary)
            THEN TermOfString(Get(active_context.vocabulary).v \o value)
          ELSE IF document_relative /\ IsIriRef(value)
                  /\ IsSome(resolve_iri(value, active_context.base_iri))
            THEN Tiri(Get(resolve_iri(value, active_context.base_iri)))
          ELSE Unknown(value)
    IN  IF IsSome(td) /\ IsSome(Get(td).value) /\ Get(Get(td).value).k = "keyword"
          THEN Get(Get(td).value)
        ELSE IF vocab /\ IsSome(td) /\ IsSome(Get(td).value)
          THEN Get(Get(td).value)
        ELSE IF i > 1
          THEN IF prefix = "_" THEN Tblank(suffix)
               ELSE IF StartsWith(suffix, "//")
                 THEN (IF IsIri(value) THEN Tiri(value) ELSE Unknown(value))
               ELSE IF IsSome(pd) /\ Get(pd).prefix /\ IsSome(Get(pd).value)
                 THEN TermOfString(Get(Get(pd).value).v \o suffix)
               ELSE IF IsIri(value) THEN Tiri(value)
               ELSE rest
        ELSE rest

\* Lines 831-842: the term, expanded, against the IRI mapping.
DefineIdTermExpanded(d, m1) ==
  IF m1.err # "" THEN [d EXCEPT !.m = m1]
  ELSE IF m1.ret.k = "unknown" \/ d.def.value # Some(m1.ret)
    THEN Fail([d EXCEPT !.m = m1], "invalid-IRI-mapping")
  ELSE [d EXCEPT !.m = m1]

\* Lines 823-843: a term with the form of a compact IRI or of a relative
\* reference must expand to its own IRI mapping.
DefineIdTermCheck(d, term, e) ==
  IF ~(contains_between_boundaries(term, ":") \/ Contains(term, "/")) THEN d
  ELSE DefineIdTermExpanded(
         d,
         expand_iri([d.m EXCEPT !.defined = DefinedSet(@, term, TRUE)],
                    term, FALSE, TRUE, e))

\* Lines 873-904: the IRI mapping, once the prefix of the term is defined
\* (m1 is what define left).
DefineCompactIriDefined(d, m1, term) ==
  LET i == Find(term, ":")
      prefix == SubSeq(term, 1, i - 1)
      suffix == SubSeq(term, i + 1, Len(term))
      d1 == [d EXCEPT !.m = m1]
      pd == CtxGet(m1.ctx, prefix)
      result ==
        (IF IsSome(Get(pd).value) /\ Get(Get(pd).value).k = "iri"
         THEN Get(Get(pd).value).v ELSE "") \o suffix
  IN  IF m1.err # "" THEN d1
      ELSE IF IsSome(pd)
        THEN IF IsIri(result) THEN [d1 EXCEPT !.def.value = Some(Tiri(result))]
             ELSE Fail(d1, "invalid-IRI-mapping")
      ELSE IF prefix = "_" THEN [d1 EXCEPT !.def.value = Some(Tblank(suffix))]
      ELSE IF IsIri(term) THEN [d1 EXCEPT !.def.value = Some(Tiri(term))]
      ELSE Fail(d1, "invalid-IRI-mapping")

\* Lines 860-904: no usable @id and the term has the form prefix:suffix.
DefineCompactIri(d, term, e) ==
  DefineCompactIriDefined(
    d, define(d.m, SubSeq(term, 1, Find(term, ":") - 1), Lazy(e)), term)

\* Lines 905-942: no usable @id and the term is no compact IRI.
DefineFromTerm(d, term) ==
  LET expanded == expansion_expand_iri(d.m.ctx, term, FALSE, TRUE)
      vocabulary == d.m.ctx.vocabulary
      result == Get(vocabulary).v \o term
  IN  IF Contains(term, "/")
        THEN IF expanded.k = "iri" THEN [d EXCEPT !.def.value = Some(expanded)]
             ELSE Fail(d, "invalid-IRI-mapping")
      ELSE IF term = "@type" THEN [d EXCEPT !.def.value = Some(Tkw("@type"))]
      ELSE IF IsSome(vocabulary)
        THEN IF Get(vocabulary).k = "iri" /\ IsIri(result)
               THEN [d EXCEPT !.def.value = Some(Tiri(result))]
             ELSE Fail(d, "invalid-IRI-mapping")
      ELSE Fail(d, "invalid-IRI-mapping")

\* Lines 845-857: the prefix flag of a simple term.
DefinePrefixFlag(d, term, simple_term) ==
  IF d.m.err # "" THEN d
  ELSE IF /\ ~Contains(term, ":")
          /\ ~Contains(term, "/")
          /\ simple_term
          /\ is_gen_delim_or_blank(Get(d.def.value))
    THEN [d EXCEPT !.def.prefix = TRUE]
  ELSE d

\* Lines 803-857: the IRI mapping, from the expanded @id entry.
DefineIdExpanded(d, m1, term, simple_term, e) ==
  IF m1.err # "" THEN [d EXCEPT !.m = m1]
  ELSE IF m1.ret.k = "unknown" THEN Fail([d EXCEPT !.m = m1], "invalid-IRI-mapping")
  ELSE IF m1.ret = Tkw("@context")
    THEN Fail([d EXCEPT !.m = m1], "invalid-keyword-alias")
  ELSE DefinePrefixFlag(
         DefineIdTermCheck([d EXCEPT !.m = m1, !.def.value = Some(m1.ret)],
                           term, e),
         term, simple_term)

\* Lines 781-859: an @id entry that is not the term itself.
DefineFromId(d, term, id_value, simple_term, e) ==
  IF id_value.t = "null" THEN d
  ELSE IF id_value.t # "str" THEN Fail(d, "invalid-IRI-mapping")
  ELSE IF is_keyword_like(id_value.s) /\ ~is_keyword(id_value.s)
    THEN [d EXCEPT !.done = TRUE]
  ELSE DefineIdExpanded(d, expand_iri(d.m, id_value.s, FALSE, TRUE, e),
                        term, simple_term, e)

\* Lines 780-942: the IRI mapping of the definition.
DefineIriMapping(d, term, value, simple_term, e) ==
  IF ~Live(d) THEN d
  ELSE LET id_value == ObjGet(value, "@id")
       IN  IF IsSome(id_value) /\ as_str(Get(id_value)) # Some(term)
             THEN DefineFromId(d, term, Get(id_value), simple_term, e)
           ELSE IF contains_after_first(term, ":") THEN DefineCompactIri(d, term, e)
           ELSE DefineFromTerm(d, term)

RECURSIVE ContainerAddAll(_, _)
\* Lines 967-980: add every entry; None when one is no container keyword or
\* makes no valid combination.
ContainerAddAll(container, entries) ==
  IF entries = <<>> THEN Some(container)
  ELSE LET entry == Head(entries)
       IN  IF /\ entry.t = "str"
              /\ entry.s \in ContainerTypes
              /\ ContainerCanAdd(container, entry.s)
           THEN ContainerAddAll(container \cup {entry.s}, Tail(entries))
           ELSE None

\* Lines 945-1001: the @container entry.
DefineContainer(d, value, e) ==
  IF ~Live(d) \/ ~IsSome(ObjGet(value, "@container")) THEN d
  ELSE LET container_value == Get(ObjGet(value, "@container"))
           added == ContainerAddAll(d.def.container, as_array(container_value))
           d1 == [d EXCEPT !.def.container = Get(added)]
       IN  IF /\ e.options.processing_mode = "json-ld-1.0"
              /\ \/ container_value.t # "str"
                 \/ container_value.s \in {"@graph", "@id", "@type"}
             THEN Fail(d, "invalid-container-mapping")
           ELSE IF ~IsSome(added) THEN Fail(d, "invalid-container-mapping")
           ELSE IF "@type" \notin d1.def.container THEN d1
           ELSE IF ~IsSome(d1.def.typ) THEN [d1 EXCEPT !.def.typ = Some("@id")]
           ELSE IF Get(d1.def.typ) \in {"@id", "@vocab"} THEN d1
           ELSE Fail(d1, "invalid-type-mapping")

\* Lines 1004-1028: the @index entry.
DefineIndex(d, value, e) ==
  IF ~Live(d) \/ ~IsSome(ObjGet(value, "@index")) THEN d
  ELSE LET index_value == Get(ObjGet(value, "@index"))
       IN  IF \/ "@index" \notin d.def.container
              \/ e.options.processing_mode = "json-ld-1.0"
             THEN Fail(d, "invalid-term-definition")
           ELSE IF index_value.t # "str" THEN Fail(d, "invalid-term-definition")
           ELSE IF expansion_expand_iri(d.m.ctx, index_value.s, FALSE, TRUE).k # "iri"
             THEN Fail(d, "invalid-term-definition")
           ELSE [d EXCEPT !.def.index = Some(index_value.s)]

\* Line 1045: the context processed for validation is dropped; the active
\* context of define stays the one it was called with.
AfterScopedContext(active_context, processed) == active_context

\* The scoped context whose processing error is returned as it is.
DefineScopedProcessedSameCode(d, context, out, e) ==
  LET d1 == [d EXCEPT !.m.inst = out.inst,
                      !.m.ctx = AfterScopedContext(d.m.ctx, out.ctx)]
  IN  IF out.err # "" THEN Fail(d1, out.err)
      ELSE [d1 EXCEPT !.def.context = Some(context),
                      !.def.base_url = e.base_url]

\* Lines 1045-1053: the scoped context is kept as it is written when
\* processing it gave no error (out is what process_context returned).
DefineScopedProcessed(d, context, out, e) ==
  LET d1 == [d EXCEPT !.m.inst = out.inst,
                      !.m.ctx = AfterScopedContext(d.m.ctx, out.ctx)]
  IN  IF out.err \in Aborts THEN Fail(d1, out.err)
      ELSE IF out.err # "" THEN Fail(d1, "invalid-scoped-context")
      ELSE [d1 EXCEPT !.def.context = Some(context),
                      !.def.base_url = e.base_url]

\* Lines 1031-1054: the @context entry (a scoped context).
DefineScopedContext(d, value, e) ==
  IF ~Live(d) \/ ~IsSome(ObjGet(value, "@context")) THEN d
  ELSE IF e.options.processing_mode = "json-ld-1.0"
    THEN Fail(d, "invalid-term-definition")
  ELSE DefineScopedProcessed(
         d, Get(ObjGet(value, "@context")),
         process_context(
           d.m.ctx, Get(ObjGet(value, "@context")),
           [e EXCEPT !.options = with_override(e.options)],
           d.m.inst),
         e)

\* Lines 1058-1100: the @language and @direction entries.
DefineLanguage(d, value) ==
  IF ~Live(d) \/ IsSome(ObjGet(value, "@type")) THEN d
  ELSE LET lv == ObjGet(value, "@language")
           dv == ObjGet(value, "@direction")
           d1 == IF ~IsSome(lv) THEN d
                 ELSE IF Get(lv).t = "null" THEN [d EXCEPT !.def.language = Some(None)]
                 ELSE IF Get(lv).t = "str" /\ IsLanguageTag(Get(lv).s)
                   THEN [d EXCEPT !.def.language = Some(Some(Get(lv).s))]
                 ELSE Fail(d, "invalid-language-mapping")
       IN  IF d1.m.err # "" \/ ~IsSome(dv) THEN d1
           ELSE IF Get(dv).t = "str" /\ Get(dv).s \in {"ltr", "rtl"}
             THEN [d1 EXCEPT !.def.direction = Some(Some(Get(dv).s))]
           ELSE IF Get(dv).t = "null" THEN [d1 EXCEPT !.def.direction = Some(None)]
           ELSE Fail(d1, "invalid-base-direction")

\* Lines 1103-1124: the @nest entry.
DefineNest(d, value, e) ==
  IF ~Live(d) \/ ~IsSome(ObjGet(value, "@nest")) THEN d
  ELSE LET nest_value == Get(ObjGet(value, "@nest"))
       IN  IF e.options.processing_mode = "json-ld-1.0"
             THEN Fail(d, "invalid-term-definition")
           ELSE IF nest_value.t # "str" THEN Fail(d, "invalid-nest-value")
           ELSE IF is_keyword(nest_value.s) /\ nest_value.s # "@nest"
             THEN Fail(d, "invalid-nest-value")
           ELSE [d EXCEPT !.def.nest = Some(nest_value.s)]

\* Lines 1127-1151: the @prefix entry.  Line 1148 unwraps the IRI mapping.
DefinePrefix(d, term, value, e) ==
  IF ~Live(d) \/ ~IsSome(ObjGet(value, "@prefix")) THEN d
  ELSE LET prefix_value == Get(ObjGet(value, "@prefix"))
           d1 == [d EXCEPT !.def.prefix = prefix_value.b]
       IN  IF \/ Contains(term, ":") \/ Contains(term, "/")
              \/ e.options.processing_mode = "json-ld-1.0"
             THEN Fail(d, "invalid-term-definition")
           ELSE IF prefix_value.t # "bool" THEN Fail(d, "invalid-prefix-value")
           ELSE IF ~d1.def.prefix THEN d1
           ELSE IF ~IsSome(d1.def.value) THEN Fail(d1, "panic")
           ELSE IF Get(d1.def.value).k = "keyword"
             THEN Fail(d1, "invalid-term-definition")
           ELSE d1

TermDefinitionKeys ==
  {"@id", "@reverse", "@container", "@context", "@direction", "@index",
   "@language", "@nest", "@prefix", "@protected", "@type"}

\* Lines 1153-1163: no other entry.
DefineOtherKeys(d, value) ==
  IF ~Live(d) THEN d
  ELSE IF ObjKeys(value) \subseteq TermDefinitionKeys THEN d
  ELSE Fail(d, "invalid-term-definition")

\* Lines 1165-1181: a protected previous definition may only be repeated.
\* The protected check without line 1178: the new definition keeps its own
\* protected flag.
DefineProtectedCheckNoRetain(d, options) ==
  IF ~Live(d) THEN d
  ELSE IF options.override_protected THEN d
  ELSE IF ~IsSome(d.prev) THEN d
  ELSE IF ~Get(d.prev).protected THEN d
  ELSE IF ~DefinitionEq(d.def, Get(d.prev))
    THEN Fail(d, "protected-term-redefinition")
  ELSE d

DefineProtectedCheck(d, options) ==
  IF ~Live(d) THEN d
  ELSE IF options.override_protected THEN d
  ELSE IF ~IsSome(d.prev) THEN d
  ELSE IF ~Get(d.prev).protected THEN d
  ELSE IF ~DefinitionEq(d.def, Get(d.prev))
    THEN Fail(d, "protected-term-redefinition")
  ELSE [d EXCEPT !.def.protected = TRUE]

\* Lines 1183-1186: install the definition.
DefineInstall(d, term) ==
  IF ~Live(d) THEN d
  ELSE [d EXCEPT !.m.ctx = CtxSet(d.m.ctx, term, Some(d.def)),
                 !.m.defined = DefinedSet(@, term, TRUE)]

(***************************************************************************)
(* Create Term Definition (define, lines 549-1194).                        *)
(***************************************************************************)
\* Lines 558-564 with the false entry read as a finished definition.
DefinedEntryNoCycle(defined, term) ==
  IF term \in DOMAIN defined THEN "done" ELSE "new"

\* Lines 558-564: the entry of the term in `defined`: true "done", false
\* "cyclic", none "new".
DefinedEntry(defined, term) ==
  IF term \in DOMAIN defined
  THEN (IF defined[term] THEN "done" ELSE "cyclic")
  ELSE "new"

\* The steps of define, in the order of the code.  `value` is the entry of
\* the term as a map, simple_term whether it was written as a map.
DefineStep(k, d, term, e) ==
  LET raw == Get(ObjGet(e.lc, term))
      value == Get(NormalizedValue(raw))
      simple_term == raw.t # "obj"
  IN  CASE k = 1 -> DefineKeywordCheck(d, term, e)
        [] k = 2 -> DefineRemovePrevious(d, term)
        [] k = 3 -> DefineProtected(d, term, e)
        [] k = 4 -> DefineType(d, value, e)
        [] k = 5 -> DefineReverse(d, term, value, e)
        [] k = 6 -> DefineIriMapping(d, term, value, simple_term, e)
        [] k = 7 -> DefineContainer(d, value, e)
        [] k = 8 -> DefineIndex(d, value, e)
        [] k = 9 -> DefineScopedContext(d, value, e)
        [] k = 10 -> DefineLanguage(d, value)
        [] k = 11 -> DefineNest(d, value, e)
        [] k = 12 -> DefinePrefix(d, term, value, e)
        [] k = 13 -> DefineOtherKeys(d, value)
        [] k = 14 -> DefineProtectedCheck(d, e.options)
        [] OTHER -> DefineInstall(d, term)

RECURSIVE DefineSteps(_, _, _, _)
\* Step k and those after it, up to the step that returns.
DefineSteps(k, d, term, e) ==
  IF ~Live(d) \/ k > 15 THEN d.m
  ELSE DefineSteps(k + 1, DefineStep(k, d, term, e), term, e)

define(m, term, e) ==
  IF DefinedEntry(m.defined, term) = "done" THEN m
  ELSE IF DefinedEntry(m.defined, term) = "cyclic"
    THEN [m EXCEPT !.err = "cyclic-IRI-mapping"]
  ELSE IF term = "" THEN [m EXCEPT !.err = "invalid-term-definition"]
  ELSE IF ~IsSome(ObjGet(e.lc, term)) THEN m
  ELSE DefineSteps(
         1, [m |-> m, def |-> DefaultDefinition, prev |-> None, done |-> FALSE],
         term, e)

(***************************************************************************)
(* IRI Expansion during context processing (expand_iri, lines 1197-1340).  *)
(* The term returned is m.ret.                                             *)
(***************************************************************************)
\* The last steps without the vocabulary mapping.
ExpandRestNoVocabulary(ctx, value, document_relative, vocab) ==
  IF document_relative
    THEN (IF IsIriRef(value) /\ IsSome(resolve_iri(value, ctx.base_iri))
          THEN Tiri(Get(resolve_iri(value, ctx.base_iri)))
          ELSE Unknown(value))
  ELSE Unknown(value)

\* Lines 1295-1337: the vocabulary mapping, the base IRI, the value as is.
ExpandRest(ctx, value, document_relative, vocab) ==
  IF vocab /\ IsSome(ctx.vocabulary)
    THEN (IF IsRef(Get(ctx.vocabulary))
          THEN TermOfString(Get(ctx.vocabulary).v \o value)
          ELSE Unknown(value))
  ELSE IF document_relative
    THEN (IF IsIriRef(value) /\ IsSome(resolve_iri(value, ctx.base_iri))
          THEN Tiri(Get(resolve_iri(value, ctx.base_iri)))
          ELSE Unknown(value))
  ELSE Unknown(value)

\* The lookup that returns keywords only.
ExpandTermLookupKeywordOnly(ctx, value, vocab) ==
  LET td == CtxGet(ctx, value)
  IN  IF IsSome(td) /\ IsSome(Get(td).value) /\ Get(Get(td).value).k = "keyword"
      THEN Some(Get(Get(td).value))
      ELSE None

\* The term lookup that goes on to the next steps for a term without IRI
\* mapping.
ExpandTermLookupFallThrough(ctx, value, vocab) ==
  LET td == CtxGet(ctx, value)
  IN  IF ~IsSome(td) THEN None
      ELSE IF IsSome(Get(td).value) /\ Get(Get(td).value).k = "keyword"
        THEN Some(Get(Get(td).value))
      ELSE IF ~vocab THEN None
      ELSE IF IsSome(Get(td).value) THEN Some(Get(Get(td).value))
      ELSE None

\* Lines 1217-1235: the term definition of the value: Some(term) when the
\* lookup returns, None when expansion goes on.
ExpandTermLookup(ctx, value, vocab) ==
  LET td == CtxGet(ctx, value)
  IN  IF ~IsSome(td) THEN None
      ELSE IF IsSome(Get(td).value) /\ Get(Get(td).value).k = "keyword"
        THEN Some(Get(Get(td).value))
      ELSE IF ~vocab THEN None
      ELSE IF IsSome(Get(td).value) THEN Some(Get(Get(td).value))
      ELSE Some(Unknown(value))

\* Lines 1264-1293: the compact IRI, once its prefix is defined (m2 is what
\* define left).
ExpandPrefixDefined(m2, value, document_relative, vocab) ==
  LET i == Find(value, ":")
      prefix == SubSeq(value, 1, i - 1)
      suffix == SubSeq(value, i + 1, Len(value))
      pd == CtxGet(m2.ctx, prefix)
  IN  IF m2.err # "" THEN m2
      ELSE IF IsSome(pd) /\ Get(pd).prefix /\ IsSome(Get(pd).value)
        THEN [m2 EXCEPT !.ret = TermOfString(Get(Get(pd).value).v \o suffix)]
      ELSE IF IsIri(value) THEN [m2 EXCEPT !.ret = Tiri(value)]
      ELSE [m2 EXCEPT !.ret = ExpandRest(m2.ctx, value, document_relative, vocab)]

\* Lines 1237-1293: a value with a colon after its first character.
ExpandCompactIri(m1, value, document_relative, vocab, e) ==
  LET i == Find(value, ":")
      prefix == SubSeq(value, 1, i - 1)
      suffix == SubSeq(value, i + 1, Len(value))
  IN  IF prefix = "_" THEN [m1 EXCEPT !.ret = Tblank(suffix)]
      ELSE IF StartsWith(suffix, "//")
        THEN [m1 EXCEPT !.ret = IF IsIri(value) THEN Tiri(value) ELSE Unknown(value)]
      ELSE ExpandPrefixDefined(define(m1, prefix, Lazy(e)), value,
                               document_relative, vocab)

\* Lines 1217-1337: the expansion, once the value is defined if the local
\* context has it (m1 is what define left).
ExpandDefined(m1, value, document_relative, vocab, e) ==
  LET found == ExpandTermLookup(m1.ctx, value, vocab)
  IN  IF m1.err # "" THEN m1
      ELSE IF IsSome(found) THEN [m1 EXCEPT !.ret = Get(found)]
      ELSE IF Find(value, ":") > 1
        THEN ExpandCompactIri(m1, value, document_relative, vocab, e)
      ELSE [m1 EXCEPT !.ret = ExpandRest(m1.ctx, value, document_relative, vocab)]

expand_iri(m, value, document_relative, vocab, e) ==
  IF is_keyword(value) THEN [m EXCEPT !.ret = Tkw(value)]
  ELSE IF is_keyword_like(value) THEN [m EXCEPT !.ret = Tnull]
  ELSE ExpandDefined(define(m, value, Lazy(e)), value, document_relative,
                     vocab, e)

(***************************************************************************)
(* The loader: the remote documents it serves, by URL, each given by the   *)
(* value of its top-level @context entry.  A document's url() is the URL   *)
(* it was asked for.                                                       *)
(***************************************************************************)
UrlSelf == "http://x/self"
UrlX == "http://x/X"
UrlY == "http://x/Y"
UrlImp == "http://x/imp"
UrlOk == "http://x/ok"
UrlScoped == "http://x/sc"
UrlRel == "http://y/rel"
UrlVocab == "http://x/vocab"
UrlNested == "http://x/nested"

Documents ==
  (UrlSelf :> JStr(UrlSelf)) @@
  (UrlX :> JStr(UrlY)) @@
  (UrlY :> JStr(UrlX)) @@
  (UrlImp :> JObj(<< <<"t", JObj(<< <<"@id", JStr("http://a/t")>>,
                                   <<"@context", JObj(<< <<"@import", JStr(UrlImp)>> >>)>> >>)>> >>)) @@
  (UrlOk :> JObj(<< <<"name", JStr("http://a/name")>> >>)) @@
  (UrlRel :> JStr("ok")) @@
  (UrlVocab :> JObj(<< <<"@vocab", JStr("http://v/")>>,
                       <<"name", JStr("http://a/name")>>,
                       <<"other", JStr("rel")>> >>)) @@
  (UrlNested :> JObj(<< <<"@import", JStr(UrlOk)>> >>)) @@
  (UrlScoped :> JObj(<< <<"s", JObj(<< <<"@id", JStr("http://a/s")>>,
                                      <<"@context", JStr(UrlScoped)>> >>)>> >>))

\* Loader::load_context(url) is Ok.
CanLoad(url) == url \in DOMAIN Documents

\* One more call of the loader, for `url`, below the calls that
\* dereferenced e.chain.
Loaded(inst, url, e) ==
  [inst EXCEPT !.loads = @ + 1,
               !.rederef = @ \/ \E i \in 1..Len(e.chain) : e.chain[i] = url]

(***************************************************************************)
(* Context Processing (process_context, lines 155-480).  r is the state of *)
(* the loop over the local context's items: result (ctx), the error       *)
(* returned so far, the stack `remote_contexts`, and the counters.         *)
(***************************************************************************)
ReservedKeys ==
  {"@base", "@direction", "@import", "@language", "@propagate", "@protected",
   "@version", "@vocab"}

RECURSIVE DefineTerms(_, _, _)
\* Lines 464-471: Create Term Definition for every key that is no reserved
\* entry, in the order of the map, up to the first error.
DefineTerms(m, keys, e) ==
  IF keys = <<>> \/ m.err # "" THEN m
  ELSE IF Head(keys) \in ReservedKeys THEN DefineTerms(m, Tail(keys), e)
  ELSE DefineTerms(define(m, Head(keys), e), Tail(keys), e)

\* A null item that looks for protected definitions in the active context
\* of the call.
ProcessNullActiveOnly(r, active_context, e) ==
  IF ~e.options.override_protected /\ has_protected_items(active_context)
    THEN [r EXCEPT !.err = "invalid-context-nullification"]
  ELSE LET fresh == NewContext(active_context.original_base_url)
       IN  [r EXCEPT !.ctx =
              IF ~e.options.propagate
              THEN [fresh EXCEPT !.previous_context = Some(r.ctx)]
              ELSE fresh]

\* Lines 198-222: a null item.
ProcessNull(r, active_context, e) ==
  IF ~e.options.override_protected /\ has_protected_items(r.ctx)
    THEN [r EXCEPT !.err = "invalid-context-nullification"]
  ELSE LET fresh == NewContext(active_context.original_base_url)
       IN  [r EXCEPT !.ctx =
              IF ~e.options.propagate
              THEN [fresh EXCEPT !.previous_context = Some(r.ctx)]
              ELSE fresh]

\* The call on the remote context made with the options of the referencing
\* call.
RemoteOptionsInherited(options) == options

\* Lines 263-269: the options of the call on the remote context.
RemoteOptions(options) ==
  [processing_mode |-> options.processing_mode,
   override_protected |-> FALSE, propagate |-> TRUE]

\* Line 269: result becomes what processing the remote context returned.
ProcessLoaded(r2, out) ==
  IF out.err # "" THEN [r2 EXCEPT !.err = out.err, !.inst = out.inst]
  ELSE [r2 EXCEPT !.ctx = out.ctx, !.inst = out.inst]

\* Lines 255-269: the URL is pushed on remote_contexts; when it was not
\* there the document is loaded and its context processed.
ProcessRemote(r, url, e) ==
  IF ~push(r.rc, url).ret THEN [r EXCEPT !.rc = push(r.rc, url).stack]
  ELSE IF ~CanLoad(url)
    THEN [r EXCEPT !.rc = push(r.rc, url).stack,
                   !.inst = Loaded(r.inst, url, e),
                   !.err = "loading-remote-context-failed"]
  ELSE ProcessLoaded(
         [r EXCEPT !.rc = push(r.rc, url).stack,
                   !.inst = Loaded(r.inst, url, e)],
         process_context(
           r.ctx, Documents[url],
           [e EXCEPT !.rc = push(r.rc, url).stack, !.base_url = Some(url),
                     !.options = RemoteOptions(e.options),
                     !.chain = Append(e.chain, url)],
           Loaded(r.inst, url, e)))

\* Lines 224-272: a string item, the URL of a remote context.
ProcessString(r, context, e) ==
  IF ~IsIriRef(context) THEN [r EXCEPT !.err = "loading-document-failed"]
  ELSE IF ~IsSome(resolve_iri(context, e.base_url))
    THEN [r EXCEPT !.err = "loading-remote-context-failed"]
  ELSE ProcessRemote(r, Get(resolve_iri(context, e.base_url)), e)

RECURSIVE MergeImportOverwriting(_, _)
\* The merge with the imported members replacing the map's own.
MergeImportOverwriting(context, imported) ==
  IF imported = <<>> THEN context
  ELSE MergeImportOverwriting(
         [i \in 1..Len(context) |->
            IF context[i][1] = Head(imported)[1] THEN Head(imported)
            ELSE context[i]]
           \o (IF IsSome(ObjGet(context, Head(imported)[1])) THEN <<>>
               ELSE <<Head(imported)>>),
         Tail(imported))

RECURSIVE MergeImport(_, _)
\* Lines 327-332: the map's own members, then the imported members whose
\* key the map lacks.
MergeImport(context, imported) ==
  IF imported = <<>> THEN context
  ELSE IF IsSome(ObjGet(context, Head(imported)[1]))
    THEN MergeImport(context, Tail(imported))
  ELSE MergeImport(Append(context, Head(imported)), Tail(imported))

\* Lines 277-289: the @version entry.
ProcessVersion(r, context, e) ==
  LET version_value == ObjGet(context, "@version")
  IN  IF ~IsSome(version_value) THEN r
      ELSE IF ~(Get(version_value).t \in {"str", "num"} /\ Get(version_value).s = "1.1")
        THEN [r EXCEPT !.err = "invalid-version-value"]
      ELSE IF e.options.processing_mode = "json-ld-1.0"
        THEN [r EXCEPT !.err = "processing-mode-conflict"]
      ELSE r

\* Lines 291-345: the @import entry: the loop state, the map the remaining
\* steps use, and the URLs dereferenced so far on this chain of calls.
ProcessImport(r, context, e) ==
  LET import_value == ObjGet(context, "@import")
      keep == [r |-> r, context |-> context, chain |-> e.chain]
      fail(code) == [keep EXCEPT !.r.err = code]
      import == resolve_iri(Get(import_value).s, e.base_url)
      r1 == [r EXCEPT !.inst = Loaded(r.inst, Get(import), e)]
      import_context == Documents[Get(import)]
  IN  IF r.err # "" \/ ~IsSome(import_value) THEN keep
      ELSE IF e.options.processing_mode = "json-ld-1.0"
        THEN fail("invalid-context-entry")
      ELSE IF Get(import_value).t # "str" THEN fail("invalid-@import-value")
      ELSE IF ~IsIriRef(Get(import_value).s) \/ ~IsSome(import)
        THEN fail("invalid-@import-value")
      ELSE IF ~CanLoad(Get(import)) THEN fail("loading-remote-context-failed")
      ELSE IF import_context.t # "obj"
        THEN [keep EXCEPT !.r = [r1 EXCEPT !.err = "invalid-remote-context"]]
      ELSE IF IsSome(ObjGet(import_context.m, "@import"))
        THEN [keep EXCEPT !.r = [r1 EXCEPT !.err = "invalid-context-entry"]]
      ELSE [r |-> r1, context |-> MergeImport(context, import_context.m),
            chain |-> Append(e.chain, Get(import))]

\* Lines 347-377: the @base entry, applied when no remote context is being
\* processed.
ProcessBase(r, context) ==
  LET value == ObjGet(context, "@base")
      resolved == resolve_iri(Get(value).s, r.ctx.base_iri)
  IN  IF r.err # "" \/ ~is_empty(r.rc) \/ ~IsSome(value) THEN r
      ELSE CASE Get(value).t = "null" -> [r EXCEPT !.ctx.base_iri = None]
             [] Get(value).t = "str" ->
                  IF ~IsIriRef(Get(value).s) THEN [r EXCEPT !.err = "invalid-base-IRI"]
                  ELSE IF IsIri(Get(value).s)
                    THEN [r EXCEPT !.ctx.base_iri = Some(Get(value).s)]
                  ELSE IF IsSome(resolved) THEN [r EXCEPT !.ctx.base_iri = resolved]
                  ELSE [r EXCEPT !.err = "invalid-base-IRI"]
             [] OTHER -> [r EXCEPT !.err = "invalid-base-IRI"]

\* Lines 379-405: the @vocab entry.
ProcessVocab(r, context) ==
  LET value == ObjGet(context, "@vocab")
      vocab == expansion_expand_iri(r.ctx, Get(value).s, TRUE, TRUE)
  IN  IF r.err # "" \/ ~IsSome(value) THEN r
      ELSE CASE Get(value).t = "null" -> [r EXCEPT !.ctx.vocabulary = None]
             [] Get(value).t = "str" ->
                  IF IsRef(vocab) THEN [r EXCEPT !.ctx.vocabulary = Some(vocab)]
                  ELSE [r EXCEPT !.err = "invalid-vocab-mapping"]
             [] OTHER -> [r EXCEPT !.err = "invalid-vocab-mapping"]

\* Lines 407-422: the @language entry.
ProcessLanguage(r, context) ==
  LET value == ObjGet(context, "@language")
  IN  IF r.err # "" \/ ~IsSome(value) THEN r
      ELSE IF Get(value).t = "null" THEN [r EXCEPT !.ctx.default_language = None]
      ELSE IF Get(value).t = "str" /\ IsLanguageTag(Get(value).s)
        THEN [r EXCEPT !.ctx.default_language = Some(Get(value).s)]
      ELSE [r EXCEPT !.err = "invalid-default-language"]

\* Lines 424-445: the @direction entry.
ProcessDirection(r, context, e) ==
  LET value == ObjGet(context, "@direction")
  IN  IF r.err # "" \/ ~IsSome(value) THEN r
      ELSE IF e.options.processing_mode = "json-ld-1.0"
        THEN [r EXCEPT !.err = "invalid-context-entry"]
      ELSE IF Get(value).t = "null"
        THEN [r EXCEPT !.ctx.default_base_direction = None]
      ELSE IF Get(value).t = "str" /\ Get(value).s \in {"ltr", "rtl"}
        THEN [r EXCEPT !.ctx.default_base_direction = Some(Get(value).s)]
      ELSE [r EXCEPT !.err = "invalid-base-direction"]

\* Lines 451-455: the @protected entry of the map, the default of its terms.
ContextProtected(context) ==
  LET value == ObjGet(context, "@protected")
  IN  IsSome(value) /\ Get(value).t = "bool" /\ Get(value).b

\* Lines 464-471: result after the loop over the terms (m1 is what the
\* define calls left).
TermsDefined(r, m1) ==
  [r EXCEPT !.ctx = m1.ctx, !.err = m1.err, !.inst = m1.inst]

\* Lines 447-471: the term definitions of the map.
ProcessTerms(r, context, chain, e) ==
  IF r.err # "" THEN r
  ELSE TermsDefined(
         r,
         DefineTerms([ctx |-> r.ctx, defined |-> NoDefined, err |-> "",
                      ret |-> Tnull, inst |-> r.inst],
                     [i \in 1..Len(context) |-> context[i][1]],
                     [e EXCEPT !.lc = context, !.rc = r.rc, !.chain = chain,
                               !.protected = ContextProtected(context)]))

\* Lines 347-471: the entries of the map, the imported ones included.
ProcessEntries(imp, e) ==
  ProcessTerms(
    ProcessDirection(
      ProcessLanguage(
        ProcessVocab(ProcessBase(imp.r, imp.context), imp.context),
        imp.context),
      imp.context, e),
    imp.context, imp.chain, e)

\* Lines 274-472: a map item, a context definition.
ProcessMap(r, context, e) ==
  ProcessEntries(ProcessImport(ProcessVersion(r, context, e), context, e), e)

RECURSIVE ProcessItems(_, _, _, _)
\* Lines 195-476: the items of the local context, left to right, up to the
\* first error.
ProcessItems(r, active_context, items, e) ==
  IF items = <<>> \/ r.err # "" THEN r
  ELSE LET context == Head(items)
           r1 == CASE context.t = "null" -> ProcessNull(r, active_context, e)
                   [] context.t = "str" -> ProcessString(r, context.s, e)
                   [] context.t = "obj" -> ProcessMap(r, context.m, e)
                   [] OTHER -> [r EXCEPT !.err = "invalid-local-context"]
       IN  ProcessItems(r1, active_context, Tail(items), e)

\* result whose previous context is overwritten on every call without
\* propagation.
InitialResultOverwriting(active_context, propagate) ==
  IF ~propagate
  THEN [active_context EXCEPT !.previous_context = Some(active_context)]
  ELSE active_context

\* Lines 167-190: result starts as a clone of the active context, with the
\* active context as its previous context when propagate is false.
InitialResult(active_context, propagate) ==
  IF ~propagate /\ ~IsSome(active_context.previous_context)
  THEN [active_context EXCEPT !.previous_context = Some(active_context)]
  ELSE active_context

\* The arguments of process_context (lines 155-159); the loader is the same
\* for every call.
CallArguments(active_context, local_context, e) ==
  [active_context |-> active_context, local_context |-> local_context,
   stack |-> e.rc, base_url |-> e.base_url, options |-> e.options]

\* Line 478: Ok(result), or the error of the item that failed.
Returned(r) == [ctx |-> r.ctx, err |-> r.err, inst |-> r.inst]

process_context(active_context, local_context, e, inst) ==
  LET pv == IF local_context.t = "obj"
            THEN ObjGet(local_context.m, "@propagate") ELSE None
      stop(code) == [ctx |-> active_context, err |-> code, inst |-> inst]
      options == IF IsSome(pv) THEN [e.options EXCEPT !.propagate = Get(pv).b]
                 ELSE e.options
      arguments == CallArguments(active_context, local_context, e)
  IN  IF arguments \in e.enclosing THEN stop("stack-overflow")
      ELSE IF IsSome(pv) /\ e.options.processing_mode = "json-ld-1.0"
        THEN stop("invalid-context-entry")
      ELSE IF IsSome(pv) /\ Get(pv).t # "bool" THEN stop("invalid-propagate-value")
      ELSE Returned(
             ProcessItems(
               [ctx |-> InitialResult(active_context, options.propagate),
                err |-> "", rc |-> e.rc, inst |-> inst],
               active_context, as_array(local_context),
               [e EXCEPT !.options = options,
                         !.enclosing = @ \cup {arguments}]))

(***************************************************************************)
(* IRI compaction (compaction/iri.rs).                                     *)
(***************************************************************************)
\* The characters of the model's strings, in byte order.
ByteOrder ==
  "#-./0123456789:@ABCDEFGHIJKLMNOPQRSTUVWXYZ_abcdefghijklmnopqrstuvwxyz"

RECURSIVE StrLess(_, _)
\* a < b on Strings: byte-wise lexicographic order.
StrLess(a, b) ==
  IF b = "" THEN FALSE
  ELSE IF a = "" THEN TRUE
  ELSE IF Chr(a, 1) = Chr(b, 1)
    THEN StrLess(SubSeq(a, 2, Len(a)), SubSeq(b, 2, Len(b)))
  ELSE Find(ByteOrder, Chr(a, 1)) < Find(ByteOrder, Chr(b, 1))

\* Iri::relative_to(base) for the IRIs of the model: an IRI below the
\* directory of base becomes the path from there, an IRI with another
\* authority stays as it is.
RelativeTo(iri, base) ==
  LET dir == SubSeq(base, 1, RFind(base, "/"))
  IN  IF StartsWith(iri, dir) /\ Len(iri) > Len(dir) THEN StripPrefix(iri, dir)
      ELSE iri

\* Nullable<(Option<language>, Option<direction>)>.
LangDir(language, direction) ==
  [null |-> FALSE, language |-> language, direction |-> direction]
NullLangDir == [null |-> TRUE, language |-> None, direction |-> None]
NoLangDir == LangDir(None, None)

\* Indexed<Object>: what compaction reads of a value.  `lit` tells the
\* variants of Value apart.
ValueObject(lit, language, direction, typ, index) ==
  [kind |-> "value", lit |-> lit, language |-> language,
   direction |-> direction, typ |-> typ, index |-> index, id |-> None,
   items |-> <<>>]
NodeObject(id, index) ==
  [kind |-> "node", lit |-> "", language |-> None, direction |-> None,
   typ |-> None, index |-> index, id |-> id, items |-> <<>>]
GraphObject(id, index) == [NodeObject(id, index) EXCEPT !.kind = "graph"]
ListObject(items, index) ==
  [NodeObject(None, index) EXCEPT !.kind = "list", !.items = items]

\* TypeSelection, LangSelection and TypeLangValue.
SelType(t) == [kind |-> "type", t |-> t, ld |-> NullLangDir]
SelLang(ld) == [kind |-> "lang", t |-> "", ld |-> ld]
SelAny == [kind |-> "any", t |-> "", ld |-> NullLangDir]
SelNone == [kind |-> "none", t |-> "", ld |-> NullLangDir]

\* Lines 103-124: the type and the language/direction of a list item.
ItemType(item) ==
  IF item.kind # "value" THEN Some("@id")
  ELSE IF item.lit = "typed" THEN Some(Get(item.typ))
  ELSE IF item.lit = "json" THEN Some("@json")
  ELSE None

ItemLangDir(item) ==
  IF item.kind # "value" THEN None
  ELSE IF item.lit = "langstring"
    THEN Some(LangDir(item.language, item.direction))
  ELSE IF item.lit = "plain" THEN Some(NullLangDir)
  ELSE None

\* Lines 126-136: one item folded into the common type and language.
ListFoldItem(f, item) ==
  [common_lang_dir |->
     IF ~IsSome(f.common_lang_dir) THEN ItemLangDir(item)
     ELSE IF item.kind = "value" /\ f.common_lang_dir # ItemLangDir(item)
       THEN Some(NoLangDir)
     ELSE f.common_lang_dir,
   common_type |->
     IF ~IsSome(f.common_type) THEN Some(ItemType(item))
     ELSE IF Get(f.common_type) # ItemType(item) THEN Some(None)
     ELSE f.common_type]

RECURSIVE ListFold(_, _)
\* Lines 98-141: the loop over the items, with its break.
ListFold(f, items) ==
  IF items = <<>> THEN f
  ELSE IF f.common_lang_dir = Some(NoLangDir) /\ f.common_type = Some(None)
    THEN f
  ELSE ListFold(ListFoldItem(f, Head(items)), Tail(items))

\* Lines 143-157: the type/language value of a list that has items.
ListTypeLang(f) ==
  IF IsSome(f.common_type) /\ IsSome(Get(f.common_type))
    THEN SelType(Get(Get(f.common_type)))
  ELSE IF IsSome(f.common_lang_dir) THEN SelLang(Get(f.common_lang_dir))
  ELSE SelLang(NoLangDir)

\* Value::typ.
ValueTyp(v) ==
  IF v.lit = "typed" THEN v.typ
  ELSE IF v.lit = "json" THEN Some("@json")
  ELSE None

\* Lines 65-228: type_lang_value.
CompactTypeLang(value, reverse) ==
  IF reverse THEN SelType("@reverse")
  ELSE IF ~IsSome(value) THEN SelType("@id")
  ELSE LET v == Get(value)
       IN  CASE v.kind = "list" ->
                  IF v.items = <<>> THEN SelNone
                  ELSE ListTypeLang(ListFold([common_type |-> None,
                                              common_lang_dir |-> None],
                                             v.items))
             [] v.kind = "graph" -> SelType("@id")
             [] v.kind = "value" ->
                  IF (IsSome(v.direction) \/ IsSome(v.language)) /\ ~v.index
                    THEN SelLang(LangDir(v.language, v.direction))
                  ELSE IF IsSome(ValueTyp(v)) THEN SelType(Get(ValueTyp(v)))
                  ELSE SelNone
             [] OTHER -> SelType("@id")

\* Lines 86-226: the containers the kind of value prefers.
CompactKindContainers(v) ==
  CASE v.kind = "list" -> IF ~v.index THEN << {"@list"} >> ELSE <<>>
    [] v.kind = "graph" ->
         (IF v.index THEN << {"@graph", "@index"}, {"@graph", "@index", "@set"} >>
          ELSE <<>>)
         \o (IF IsSome(v.id) THEN << {"@graph", "@id"}, {"@graph", "@id", "@set"} >>
             ELSE <<>>)
         \o << {"@graph"}, {"@graph", "@set"}, {"@set"} >>
         \o (IF ~v.index
               THEN << {"@graph", "@index"}, {"@graph", "@index", "@set"} >>
             ELSE <<>>)
         \o (IF ~IsSome(v.id) THEN << {"@graph", "@id"}, {"@graph", "@id", "@set"} >>
             ELSE <<>>)
         \o << {"@index"}, {"@index", "@set"} >>
    [] v.kind = "value" ->
         (IF (IsSome(v.direction) \/ IsSome(v.language)) /\ ~v.index
            THEN << {"@language"}, {"@language", "@set"} >>
          ELSE <<>>)
         \o << {"@set"} >>
    [] OTHER -> << {"@id"}, {"@id", "@set"}, {"@type"}, {"@set", "@type"}, {"@set"} >>

\* Line 211: a value object with no type, index, language or direction.
IsSimpleValue(value, reverse) ==
  /\ ~reverse
  /\ IsSome(value)
  /\ Get(value).kind = "value"
  /\ ~((IsSome(Get(value).direction) \/ IsSome(Get(value).language))
       /\ ~Get(value).index)
  /\ ~IsSome(ValueTyp(Get(value)))
  /\ ~IsSome(Get(value).direction)
  /\ ~IsSome(Get(value).language)
  /\ ~Get(value).index

\* Lines 64-240: the ordered list of preferred container mappings.
CompactContainers(value, reverse, options) ==
  LET has_index == ~reverse /\ IsSome(value) /\ Get(value).index
  IN  (IF IsSome(value) /\ Get(value).index /\ Get(value).kind # "graph"
         THEN << {"@index"}, {"@index", "@set"} >>
       ELSE <<>>)
      \o (IF reverse THEN << {"@set"} >>
          ELSE IF IsSome(value) THEN CompactKindContainers(Get(value))
          ELSE << {"@id"}, {"@id", "@set"}, {"@type"}, {"@set", "@type"},
                  {"@set"} >>)
      \o << {} >>
      \o (IF options.processing_mode # "json-ld-1.0" /\ ~has_index
            THEN << {"@index"}, {"@index", "@set"} >>
          ELSE <<>>)
      \o (IF options.processing_mode # "json-ld-1.0"
             /\ IsSimpleValue(value, reverse)
            THEN << {"@language"}, {"@language", "@set"} >>
          ELSE <<>>)

\* Lines 263-266: the value has an @id and the type value is @id or
\* @reverse.
HasIdType(value, type_value) ==
  /\ IsSome(value)
  /\ IsSome(Get(value).id)
  /\ type_value.t \in {"@id", "@reverse"}

\* Lines 270-275: whether the compacted @id of the value is a term of the
\* active context whose IRI mapping is that @id.
ProbeVocab(active_context, id, compacted) ==
  /\ id.k # "unknown"
  /\ compacted.json.t = "str"
  /\ IsSome(CtxGet(active_context, compacted.json.s))
  /\ Get(CtxGet(active_context, compacted.json.s)).value = Some(id)

\* Lines 256-298: the preferred values when the type/language is @type.
TypeSelectionOf(active_context, value, type_value, compacted) ==
  (IF type_value.t = "@reverse" THEN << SelType("@reverse") >> ELSE <<>>)
  \o (IF HasIdType(value, type_value)
        THEN IF ProbeVocab(active_context, Get(Get(value).id), compacted)
               THEN << SelType("@vocab"), SelType("@id"), SelType("@none") >>
             ELSE << SelType("@id"), SelType("@vocab"), SelType("@none") >>
      ELSE << type_value, SelType("@none") >>)
  \o << SelAny >>

\* Lines 300-313: the preferred values when the type/language is @language.
LangSelectionOf(lang_value) ==
  << lang_value, SelLang(NoLangDir), SelAny >>
  \o (IF IsSome(lang_value.ld.language) /\ IsSome(lang_value.ld.direction)
        THEN << SelLang(LangDir(None, lang_value.ld.direction)) >>
      ELSE <<>>)

\* Lines 242-322: the selection.
CompactSelection(active_context, value, type_lang_value, compacted) ==
  IF IsSome(value) /\ Get(value).kind = "list" /\ Get(value).items = <<>>
    THEN << SelAny >>
  ELSE IF type_lang_value.kind = "type"
    THEN TypeSelectionOf(active_context, value, type_lang_value, compacted)
  ELSE IF type_lang_value.kind = "lang" THEN LangSelectionOf(type_lang_value)
  ELSE << SelLang(NullLangDir), SelLang(NoLangDir), SelAny >>

(***************************************************************************)
(* The inverse context (InverseContext, Inversible), after the             *)
(* specification: container -> IRI -> selector kind -> selector value ->   *)
(* term, each slot holding the first term in shortest-then-lexicographic   *)
(* order that claims it.                                                   *)
(***************************************************************************)
\* The order the terms enter the inverse context in.
TermLess(a, b) == Len(a) < Len(b) \/ (Len(a) = Len(b) /\ StrLess(a, b))

\* inverse().get(var) is Some(entry).
InverseHas(active_context, var) ==
  \E t \in DOMAIN active_context.defs : active_context.defs[t].value = Some(var)

\* The language/direction slot a definition with a language or a direction
\* mapping claims.
DefinitionLangDir(definition) ==
  LET language == IF IsSome(definition.language) THEN Get(definition.language)
                  ELSE None
      direction == IF IsSome(definition.direction) THEN Get(definition.direction)
                   ELSE None
  IN  IF ~IsSome(language) /\ ~IsSome(direction) THEN NullLangDir
      ELSE LangDir(language, direction)

\* The definition claims the slot `sel` of its container's entry.
InSlot(active_context, definition, sel) ==
  CASE sel.kind = "any" -> TRUE
    [] sel.kind = "type" ->
         IF definition.reverse_property THEN sel.t = "@reverse"
         ELSE IF IsSome(definition.typ) THEN sel.t = Get(definition.typ)
         ELSE /\ ~IsSome(definition.language)
              /\ ~IsSome(definition.direction)
              /\ sel.t = "@none"
    [] sel.kind = "lang" ->
         /\ ~definition.reverse_property
         /\ ~IsSome(definition.typ)
         /\ IF IsSome(definition.language) \/ IsSome(definition.direction)
              THEN sel.ld = DefinitionLangDir(definition)
            ELSE sel.ld \in {LangDir(active_context.default_language,
                                     active_context.default_base_direction),
                             NoLangDir}
    [] OTHER -> FALSE

\* The terms that claim the slot `sel` of `container` in the entry of var.
SlotTerms(active_context, var, container, sel) ==
  {t \in DOMAIN active_context.defs :
     /\ active_context.defs[t].value = Some(var)
     /\ active_context.defs[t].container = container
     /\ InSlot(active_context, active_context.defs[t], sel)}

LeastTerm(terms) == CHOOSE t \in terms : \A u \in terms \ {t} : TermLess(t, u)

RECURSIVE SelectValue(_, _, _, _)
\* The first preferred value with a term in the entry of the container.
SelectValue(active_context, var, container, selection) ==
  IF selection = <<>> THEN None
  ELSE IF SlotTerms(active_context, var, container, Head(selection)) # {}
    THEN Some(LeastTerm(SlotTerms(active_context, var, container,
                                  Head(selection))))
  ELSE SelectValue(active_context, var, container, Tail(selection))

RECURSIVE select(_, _, _, _)
\* entry.select(containers, selection): the first preferred container with
\* a term for one of the preferred values.
select(active_context, var, containers, selection) ==
  IF containers = <<>> THEN None
  ELSE IF IsSome(SelectValue(active_context, var, Head(containers), selection))
    THEN SelectValue(active_context, var, Head(containers), selection)
  ELSE select(active_context, var, Tail(containers), selection)

(***************************************************************************)
(* compact_iri_full.                                                       *)
(***************************************************************************)
Compacted(json) == [err |-> "", json |-> json]
CompactError(code) == [err |-> code, json |-> JNull]

RECURSIVE CompactCandidates(_, _, _, _, _)
\* Lines 352-382: the loop over the definitions, in the order `keys` the
\* context yields them; the compact IRI it ends with ("" when none).
CompactCandidates(active_context, var, value, keys, compact_iri) ==
  IF keys = <<>> THEN compact_iri
  ELSE LET key == Head(keys)
           definition == active_context.defs[key]
           iri_mapping == Get(definition.value).v
           candidate == key \o ":" \o StripPrefix(var.v, iri_mapping)
           candidate_def == CtxGet(active_context, candidate)
       IN  IF /\ IsSome(definition.value)
              /\ definition.prefix
              /\ StartsWith(var.v, iri_mapping)
              /\ StripPrefix(var.v, iri_mapping) # ""
              /\ \/ compact_iri = ""
                 \/ /\ Len(candidate) <= Len(compact_iri)
                    /\ StrLess(candidate, compact_iri)
              /\ \/ ~IsSome(candidate_def)
                 \/ /\ IsSome(Get(candidate_def).value)
                    /\ Get(Get(candidate_def).value).v = var.v
                    /\ ~IsSome(value)
             THEN CompactCandidates(active_context, var, value, Tail(keys),
                                    candidate)
           ELSE CompactCandidates(active_context, var, value, Tail(keys),
                                  compact_iri)

\* Lines 385-411: what is returned once the candidates are known.
CompactRest(active_context, var, vocab, compact_iri) ==
  IF compact_iri # "" THEN Compacted(JStr(compact_iri))
  ELSE IF var.k = "iri" /\ IsSome(CtxGet(active_context, Scheme(var.v)))
    THEN CompactError("IRI-confused-with-prefix")
  ELSE IF ~vocab /\ IsSome(active_context.base_iri) /\ var.k = "iri"
    THEN Compacted(JStr(RelativeTo(var.v, Get(active_context.base_iri))))
  ELSE Compacted(JStr(var.v))

\* Lines 332-343: var begins with the vocabulary mapping, is longer, and
\* what follows is not a term.
VocabSuffix(active_context, var) ==
  IF /\ IsSome(active_context.vocabulary)
     /\ StartsWith(var.v, Get(active_context.vocabulary).v)
     /\ StripPrefix(var.v, Get(active_context.vocabulary).v) # ""
     /\ ~IsSome(CtxGet(active_context,
                       StripPrefix(var.v, Get(active_context.vocabulary).v)))
    THEN Some(StripPrefix(var.v, Get(active_context.vocabulary).v))
  ELSE None

\* Lines 330-411: no term was selected.
CompactNoTerm(active_context, var, value, vocab, order) ==
  IF vocab /\ IsSome(VocabSuffix(active_context, var))
    THEN Compacted(JStr(Get(VocabSuffix(active_context, var))))
  ELSE CompactRest(active_context, var, vocab,
                   CompactCandidates(active_context, var, value, order, ""))

\* Lines 324-326 with the selected term put aside.
CompactSelectedDropped(active_context, var, value, vocab, order, term) ==
  CompactNoTerm(active_context, var, value, vocab, order)

\* Lines 324-326: a selected term is the result.
CompactSelected(active_context, var, value, vocab, order, term) ==
  IF IsSome(term) THEN Compacted(JStr(Get(term)))
  ELSE CompactNoTerm(active_context, var, value, vocab, order)

\* Lines 242-326, once the @id of the value, if it had to be, is compacted.
CompactProbed(active_context, var, value, vocab, reverse, options, order, compacted) ==
  IF compacted.err # "" THEN compacted
  ELSE CompactSelected(active_context, var, value, vocab, order,
         select(active_context, var,
                CompactContainers(value, reverse, options),
                CompactSelection(active_context, value,
                                 CompactTypeLang(value, reverse), compacted)))

\* Lines 264-270: compact_iri is called for the @id of the value.
NeedsProbe(value, reverse) ==
  /\ IsSome(value)
  /\ ~(Get(value).kind = "list" /\ Get(value).items = <<>>)
  /\ HasIdType(value, CompactTypeLang(value, reverse))
  /\ Get(Get(value).id).k # "unknown"

RECURSIVE compact_iri_full(_, _, _, _, _, _, _)
\* Lines 50-412.  `order` is the order active_context.definitions() yields
\* the terms with a true prefix flag in.
compact_iri_full(active_context, var, value, vocab, reverse, options, order) ==
  IF var = Tnull THEN Compacted(JNull)
  ELSE IF vocab /\ var.k # "unknown" /\ InverseHas(active_context, var)
    THEN CompactProbed(active_context, var, value, vocab, reverse, options,
           order,
           IF NeedsProbe(value, reverse)
             THEN compact_iri_full(active_context, Get(Get(value).id), None,
                                   TRUE, FALSE, options, order)
           ELSE Compacted(JNull))
  ELSE CompactNoTerm(active_context, var, value, vocab, order)

\* Lines 36-38.
compact_iri(active_context, var, vocab, reverse, options, order) ==
  compact_iri_full(active_context, var, None, vocab, reverse, options, order)

(***************************************************************************)
(* The state machine.                                                      *)
(*   active   the caller's active context                                  *)
(*   call     the last operation and its arguments                         *)
(*   outcome  what the last operation returned                             *)
(*   stack    a ProcessingStack owned by the caller                        *)
(*   pushed   the URLs whose push onto `stack` returned true               *)
(*   calls    the number of operations so far                              *)
(***************************************************************************)
\* The base URL of the document being processed.
DocUrl == "http://x/doc"

Options(mode, override_protected, propagate) ==
  [processing_mode |-> mode, override_protected |-> override_protected,
   propagate |-> propagate]

\* ProcessingOptions::default() in mode 1.1.
DefaultOptions == Options("json-ld-1.1", FALSE, TRUE)

\* The arguments of a call from outside: an empty stack, no enclosing call.
TopEnv(base_url, options) ==
  [lc |-> <<>>, rc |-> NewStack, base_url |-> base_url, protected |-> FALSE,
   options |-> options, enclosing |-> {}, chain |-> <<>>]

\* `origin` is the call whose result the caller adopted as `active`, if any.
NoCall ==
  [op |-> "none", local |-> JNull, options |-> DefaultOptions, value |-> "",
   vocab |-> FALSE, url |-> "", origin |-> None, defined |-> NoDefined,
   var |-> Tnull, object |-> None, reverse |-> FALSE, order |-> <<>>,
   base_url |-> Some(DocUrl)]

NoOutcome ==
  [err |-> "", ctx |-> None, ret |-> Tnull, flag |-> FALSE, inst |-> NoInst,
   json |-> JNull, defined |-> NoDefined]

Init ==
  /\ active = NewContext(Some(DocUrl))
  /\ call = NoCall
  /\ outcome = NoOutcome
  /\ stack = NewStack
  /\ pushed = {}
  /\ calls = 0

\* process_context working on the caller's context in place.
CallerContextInPlace(active_context, out) == out.ctx

\* Line 168: process_context works on a clone; what the caller's borrowed
\* active context is after the call.
CallerContextAfter(active_context, out) == active_context

\* What the caller holds when process_context has returned `out`.
ProcessReturns(out) ==
  /\ outcome' = [NoOutcome EXCEPT
                   !.err = out.err,
                   !.ctx = IF out.err = "" THEN Some(out.ctx) ELSE None,
                   !.inst = out.inst]
  /\ active' = CallerContextAfter(active, out)

\* process_context(active, local, ProcessingStack::new(), loader, base_url,
\* options) is called and returns.
Process(local, options) ==
  /\ calls < MaxCalls
  /\ ProcessReturns(process_context(active, local,
                                    TopEnv(Some(DocUrl), options), NoInst))
  /\ call' = [NoCall EXCEPT !.op = "process", !.local = local,
                            !.options = options, !.origin = call.origin]
  /\ calls' = calls + 1
  /\ UNCHANGED <<stack, pushed>>

\* Line 269: the caller takes the processed context as its active context.
Adopt ==
  /\ call.op = "process"
  /\ outcome.err = ""
  /\ active' = Get(outcome.ctx)
  /\ call' = [call EXCEPT !.op = "adopt",
                          !.origin = Some([local |-> call.local,
                                           options |-> call.options])]
  /\ UNCHANGED <<outcome, stack, pushed, calls>>

(***************************************************************************)
(* Local contexts a caller processes, one after the other.                 *)
(***************************************************************************)
Obj1(key, value) == JObj(<< <<key, value>> >>)
Obj2(k1, v1, k2, v2) == JObj(<< <<k1, v1>>, <<k2, v2>> >>)

LProtected == Obj1("name", Obj2("@id", JStr("http://a"), "@protected", JBool(TRUE)))
LNameB == Obj1("name", JStr("http://b"))
LNameA == Obj1("name", JStr("http://a"))
LNameNull == Obj1("name", JNull)
LReverse == Obj1("name", Obj1("@reverse", JStr("http://r")))
LKeywordLike == Obj1("name", JStr("@foo"))
LOther == Obj1("other", JStr("http://o"))
LNullThenProtected == JArr(<<JNull, LProtected>>)
LBaseRelative == Obj1("@base", JStr("p/"))
LVocab == Obj1("@vocab", JStr("http://v/"))
LScoped == Obj1("t", Obj2("@id", JStr("http://a/t"), "@context", LNameB))
LImportLoop == Obj1("@import", JStr(UrlImp))

TermLocals ==
  {LProtected, LNameB, LNameA, LNameNull, LReverse, LKeywordLike, LOther,
   JNull, LNullThenProtected, LBaseRelative, LVocab, LScoped}

RemoteLocals ==
  {LImportLoop, JStr(UrlOk), JStr(UrlX), JStr(UrlSelf), JStr(UrlScoped)}

\* The calls of the caller: a local context and the options.
Calls ==
  {[local |-> l, options |-> Options("json-ld-1.1", o, TRUE)] :
     l \in TermLocals, o \in BOOLEAN}
  \cup {[local |-> l, options |-> DefaultOptions] : l \in RemoteLocals}
  \cup {[local |-> l, options |-> Options("json-ld-1.1", FALSE, FALSE)] :
          l \in {LNameB, JNull}}

Next ==
  \/ \E c \in Calls : Process(c.local, c.options)
  \/ Adopt

Spec == Init /\ [][Next]_vars

(***************************************************************************)
(* Protected terms, idempotence, the caller's context, remote cycles.      *)
(***************************************************************************)
ProtectedTerms(ctx) == {t \in DOMAIN ctx.defs : ctx.defs[t].protected}

Processed == call.op = "process"

\* C1: a call with override_protected = false on a context with a protected
\* term either fails or leaves the term defined as it was, still protected.
C1_ProtectedTermsSurvive ==
  (Processed /\ ~call.options.override_protected) =>
    \A t \in ProtectedTerms(active) :
      \/ outcome.err # ""
      \/ CtxGet(Get(outcome.ctx), t) = Some(active.defs[t])

\* `name` is defined as {@id: http://a, @protected: true}.
NameProtectedA(ctx) ==
  /\ IsSome(CtxGet(ctx, "name"))
  /\ Get(CtxGet(ctx, "name")).protected
  /\ Get(CtxGet(ctx, "name")).value = Some(Tiri("http://a"))

\* {name: http://b} on a context where `name` is protected: refused without
\* override_protected, installed with it.
RedefinitionScenario ==
  (Processed /\ NameProtectedA(active) /\ call.local = LNameB) =>
    IF call.options.override_protected
    THEN /\ outcome.err = ""
         /\ Get(CtxGet(Get(outcome.ctx), "name")).value = Some(Tiri("http://b"))
    ELSE outcome.err = "protected-term-redefinition"

\* C2 as stated: the scenario, and an equal redefinition of the protected
\* term succeeds and installs a protected definition, whatever the options.
C2_AsStated ==
  /\ RedefinitionScenario
  /\ (Processed /\ NameProtectedA(active) /\ call.local = LNameA) =>
       /\ outcome.err = ""
       /\ NameProtectedA(Get(outcome.ctx))

\* C2: the scenario, and with override_protected = false an equal
\* redefinition of the protected term succeeds and installs a protected
\* definition.
C2_ProtectedRedefinition ==
  /\ RedefinitionScenario
  /\ (Processed /\ NameProtectedA(active) /\ call.local = LNameA
        /\ ~call.options.override_protected) =>
       /\ outcome.err = ""
       /\ NameProtectedA(Get(outcome.ctx))

C2_Witness ==
  /\ Processed
  /\ NameProtectedA(active)
  /\ call.local = LNameA
  /\ ~call.options.override_protected
  /\ outcome.err = ""

\* The call just made repeats the call whose result is the active context.
Repeated ==
  /\ Processed
  /\ call.origin = Some([local |-> call.local, options |-> call.options])

SameResult == outcome.err = "" /\ Get(outcome.ctx) = active

\* A single context definition without @base, @vocab or @import whose term
\* definitions have no @context and no @index.
PlainMap(local) ==
  /\ local.t = "obj"
  /\ ObjKeys(local.m) \cap {"@base", "@vocab", "@import"} = {}
  /\ \A i \in 1..Len(local.m) :
       local.m[i][2].t = "obj" =>
         ObjKeys(local.m[i][2].m) \cap {"@context", "@index"} = {}

\* C3 as stated: processing any local context a second time, against the
\* result of the first time, succeeds and returns that result again.
C3_AsStated == Repeated => SameResult

\* C3: processing a plain context definition a second time, against the
\* result of the first time and with the same options, succeeds and returns
\* that result again.
C3_IdempotentPlainMap == (Repeated /\ PlainMap(call.local)) => SameResult

C3_Witness ==
  /\ Repeated
  /\ PlainMap(call.local)
  /\ ~call.options.propagate
  /\ DOMAIN active.defs # {}
  /\ SameResult

\* The terms a context definition does not name keep their definition.
OtherTermsKept ==
  (Processed /\ outcome.err = "" /\ call.local.t = "obj") =>
    \A t \in (DOMAIN active.defs \cup DOMAIN Get(outcome.ctx).defs)
               \ ObjKeys(call.local.m) :
      CtxGet(Get(outcome.ctx), t) = CtxGet(active, t)

\* C4: a call of process_context leaves the caller's active context as it
\* was, whether it returns a context or an error; what a scoped context
\* defines while it is validated does not reach the result either.
C4_CallerContextUntouched ==
  /\ [][call'.op = "process" => active' = active]_vars
  /\ []OtherTermsKept

C4_Witness ==
  /\ Processed
  /\ call.local = LScoped
  /\ NameProtectedA(active)
  /\ outcome.err = ""
  /\ Get(outcome.ctx) # active

\* C6: processing the URL X, whose context is the URL Y, whose context is
\* the URL X, fails with recursive-context-inclusion.
C6_RecursiveInclusionFatal ==
  (Processed /\ call.local = JStr(UrlX)) =>
    outcome.err = "recursive-context-inclusion"

\* C7: every call returns, and no URL is dereferenced twice along a chain of
\* nested calls.
C7_EachUrlOncePerChain ==
  Processed => (outcome.err # "stack-overflow" /\ ~outcome.inst.rederef)

(***************************************************************************)
(* Create Term Definition and IRI Expansion called on the caller's         *)
(* context, which they change in place.                                    *)
(***************************************************************************)
\* What the caller holds when define or expand_iri, working on its context,
\* has returned (m is what the call left).
InPlaceReturns(m) ==
  /\ active' = m.ctx
  /\ outcome' = [NoOutcome EXCEPT !.err = m.err, !.inst = m.inst,
                                  !.ret = IF m.err = "" THEN m.ret ELSE Tnull,
                                  !.defined = m.defined]

\* define(&mut active, local_context, term, &mut defined, ...) is called and
\* returns.
Define(local, term, defined) ==
  /\ calls < MaxCalls
  /\ InPlaceReturns(
       [define([ctx |-> active, defined |-> defined, err |-> "",
                ret |-> Tnull, inst |-> NoInst],
               term, [TopEnv(Some(DocUrl), DefaultOptions) EXCEPT !.lc = local.m])
          EXCEPT !.ret = Tnull])
  /\ call' = [NoCall EXCEPT !.op = "define", !.local = local, !.value = term,
                            !.defined = defined]
  /\ calls' = calls + 1
  /\ UNCHANGED <<stack, pushed>>

\* expand_iri(&mut active, value, false, vocab, local_context, &mut defined,
\* ...) is called with an empty `defined` and returns.
ExpandIri(local, value, vocab) ==
  /\ calls < MaxCalls
  /\ InPlaceReturns(
       expand_iri([ctx |-> active, defined |-> NoDefined, err |-> "",
                   ret |-> Tnull, inst |-> NoInst],
                  value, FALSE, vocab,
                  [TopEnv(Some(DocUrl), DefaultOptions) EXCEPT !.lc = local.m]))
  /\ call' = [NoCall EXCEPT !.op = "expand", !.local = local, !.value = value,
                            !.vocab = vocab]
  /\ calls' = calls + 1
  /\ UNCHANGED <<stack, pushed>>

LCyclic == Obj2("a", JStr("b:x"), "b", JStr("a:y"))
LSelfPrefix == Obj1("a", JStr("a:x"))
LVocabName == Obj2("@vocab", JStr("http://v/"), "name", JStr("http://a/name"))
LPrefix == Obj2("ex", JStr("http://ex/"), "ex:n", JStr("http://ex/n"))
LColonTerm == Obj1("ex:n", JStr("ex:n"))
LTypeSet == Obj1("@type", Obj1("@container", JStr("@set")))
LAlias == Obj1("kind", JStr("@type"))
LExOnly == Obj1("ex", JStr("http://ex/"))
LEmpty == JObj(<<>>)
LVocabEx == Obj2("@vocab", JStr("http://ex.com/"), "name", JStr("ex:n"))

TermCalls ==
  {[local |-> l, options |-> DefaultOptions] :
     l \in {LCyclic, LSelfPrefix, LVocabName, LPrefix, LColonTerm, LTypeSet,
            LAlias, LNameNull, LNameB, LVocabEx}}

ExpandValues == {"name", "ex:n", "ex", "@type", "kind", "a", "other"}

ExpandLocals == {LEmpty, LNameB, LCyclic, LExOnly}

LTypeSetProtected ==
  Obj1("@type", Obj2("@container", JStr("@set"), "@protected", JBool(TRUE)))
LTypeProtected == Obj1("@type", Obj1("@protected", JBool(TRUE)))
LTypeString == Obj1("@type", JStr("http://t"))
LTypeEmpty == Obj1("@type", LEmpty)
LTypeWithId ==
  Obj1("@type", Obj2("@container", JStr("@set"), "@id", JStr("http://t")))
LTypeList == Obj1("@type", Obj1("@container", JStr("@list")))
LKeywordId == Obj1("@id", JStr("http://a"))
LKeywordGraph == Obj1("@graph", Obj1("@container", JStr("@set")))

KeywordLocals ==
  {LTypeSet, LTypeSetProtected, LTypeProtected, LTypeString, LTypeEmpty,
   LTypeWithId, LTypeList, LKeywordId, LKeywordGraph}

DefineInputs ==
  {[local |-> l, term |-> t, defined |-> d] :
     l \in {LNameB, LCyclic}, t \in {"name", "a"},
     d \in {NoDefined, [x \in {"name"} |-> TRUE], [x \in {"name"} |-> FALSE],
            [x \in {"a"} |-> TRUE], [x \in {"a"} |-> FALSE]}}
  \cup
  {[local |-> l, term |-> l.m[1][1], defined |-> NoDefined] :
     l \in KeywordLocals}

NextTerms ==
  \/ \E c \in TermCalls : Process(c.local, c.options)
  \/ Adopt
  \/ \E i \in DefineInputs : Define(i.local, i.term, i.defined)
  \/ \E l \in ExpandLocals, v \in ExpandValues, vocab \in BOOLEAN :
       ExpandIri(l, v, vocab)

SpecTerms == Init /\ [][NextTerms]_vars

\* Create Term Definition re-entered for a term that `defined` holds: false
\* is an error, true a return that leaves the context alone.
ReentryEffect ==
  (call'.op = "define" /\ call'.value \in DOMAIN call'.defined) =>
    IF call'.defined[call'.value]
    THEN outcome'.err = "" /\ active' = active
    ELSE outcome'.err = "cyclic-IRI-mapping"

\* C8: Create Term Definition re-entered for a term in progress fails with
\* cyclic-IRI-mapping, as for {a: b:x, b: a:y}; re-entered for a finished
\* term it returns without changing the context; no call runs away.
C8_CyclicIriMapping ==
  /\ [][ReentryEffect]_vars
  /\ []((Processed /\ call.local \in {LCyclic, LSelfPrefix}) =>
          outcome.err = "cyclic-IRI-mapping")
  /\ [](call.op \in {"process", "define", "expand"} => outcome.err \notin Aborts)

C8_Witness ==
  /\ Processed
  /\ call.local = LCyclic
  /\ outcome.err = "cyclic-IRI-mapping"

\* C9: expanding, with vocab = true and a local context without the term, a
\* string that is a term with an IRI mapping returns that IRI mapping.
C9_TermLookupFirst ==
  (/\ call.op = "expand"
   /\ call.vocab
   /\ call.value \notin ObjKeys(call.local.m)
   /\ IsSome(CtxGet(active, call.value))
   /\ IsSome(Get(CtxGet(active, call.value)).value)) =>
    /\ outcome.err = ""
    /\ outcome.ret = Get(Get(CtxGet(active, call.value)).value)

\* `name` is a term while the vocabulary mapping would give another IRI.
C9_Witness ==
  /\ call.op = "expand"
  /\ call.vocab
  /\ call.value = "name"
  /\ call.local = LEmpty
  /\ active.vocabulary = Some(Tiri("http://v/"))
  /\ outcome.ret = Tiri("http://a/name")

(***************************************************************************)
(* IRI Compaction called on the caller's context, and the string it        *)
(* returns expanded again in the same context.                             *)
(***************************************************************************)
\* A keyword of the local context is defined, nothing being defined yet.
KeywordDefined ==
  /\ call.op = "define"
  /\ call.defined = NoDefined
  /\ is_keyword(call.value)
  /\ call.value \in ObjKeys(call.local.m)

\* A map with one or both of @container: "@set" and @protected: boolean.
TypeRedefinition(value) ==
  /\ value.t = "obj"
  /\ value.m # <<>>
  /\ \A i \in 1..Len(value.m) :
       \/ value.m[i][1] = "@container" /\ value.m[i][2] = JStr("@set")
       \/ value.m[i][1] = "@protected" /\ value.m[i][2].t = "bool"

\* The definition such a map installs for @type.
TypeDefinition(value) ==
  [DefaultDefinition EXCEPT
     !.value = Some(Tkw("@type")),
     !.container = IF IsSome(ObjGet(value.m, "@container")) THEN {"@set"}
                   ELSE {},
     !.protected = IF IsSome(ObjGet(value.m, "@protected"))
                     THEN Get(ObjGet(value.m, "@protected")).b
                   ELSE FALSE]

\* @type is the term and its value such a map.
TypeRedefined ==
  /\ call.value = "@type"
  /\ TypeRedefinition(Get(ObjGet(call.local.m, "@type")))

\* The definition of @type is the one the map gives.
TypeInstalled ==
  /\ outcome.err = ""
  /\ CtxGet(active, "@type") =
       Some(TypeDefinition(Get(ObjGet(call.local.m, "@type"))))

\* C14: in mode 1.1 the term @type with a map of @container: "@set" and/or
\* @protected is defined, in a context that has no @type term yet, as the
\* keyword @type with that container and protected flag; any other value
\* for @type, and any other keyword as a term, fails with
\* keyword-redefinition.
C14_KeywordRedefinition ==
  /\ []((KeywordDefined /\ ~TypeRedefined) =>
          outcome.err = "keyword-redefinition")
  /\ [][("@type" \notin DOMAIN active.defs /\ KeywordDefined' /\ TypeRedefined')
          => TypeInstalled']_vars

\* @type is defined with {@container: "@set", @protected: true}.
C14_Witness ==
  /\ KeywordDefined
  /\ call.local = LTypeSetProtected
  /\ outcome.err = ""
  /\ active.defs["@type"].protected
  /\ active.defs["@type"].container = {"@set"}
  /\ active.defs["@type"].value = Some(Tkw("@type"))

\* The context a caller holds after processing `local` from the start.
ContextOf(local) ==
  process_context(NewContext(Some(DocUrl)), local,
                  TopEnv(Some(DocUrl), DefaultOptions), NoInst).ctx

\* An expansion with vocab = true and no local context, in the context of
\* {"@vocab": "http://ex.com/", "name": "ex:n"}.
VocabExExpansion ==
  /\ call.op = "expand"
  /\ call.vocab
  /\ call.local = LEmpty
  /\ active = ContextOf(LVocabEx)

\* C11 as stated: in that context `name` expands to http://ex.com/n and
\* `other` to http://ex.com/other.
C11_AsStated ==
  VocabExExpansion =>
    /\ call.value = "name" => outcome.ret = Tiri("http://ex.com/n")
    /\ call.value = "other" => outcome.ret = Tiri("http://ex.com/other")

\* C11: in that context the term `name` expands to its IRI mapping, which
\* is the IRI ex:n since ex is no prefix, and the undefined term `other`
\* expands to http://ex.com/other.
C11_VocabularyScenario ==
  VocabExExpansion =>
    /\ outcome.err = ""
    /\ call.value = "name" => outcome.ret = Tiri("ex:n")
    /\ call.value = "other" => outcome.ret = Tiri("http://ex.com/other")

C11_Witness ==
  /\ VocabExExpansion
  /\ call.value = "other"
  /\ outcome.ret = Tiri("http://ex.com/other")

\* What the caller holds when compact_iri_full has returned `out`.
CompactReturns(out) ==
  outcome' = [NoOutcome EXCEPT !.err = out.err, !.json = out.json]

\* compact_iri_full(active, var, value, vocab, reverse, options) is called
\* and returns; the context yields its prefix definitions in the order
\* `order`.
Compact(var, value, vocab, reverse, options, order) ==
  /\ calls < MaxCalls
  /\ CompactReturns(compact_iri_full(active, var, value, vocab, reverse,
                                     options, order))
  /\ call' = [NoCall EXCEPT !.op = "compact", !.var = var, !.object = value,
                            !.vocab = vocab, !.reverse = reverse,
                            !.options = options, !.order = order]
  /\ calls' = calls + 1
  /\ UNCHANGED <<active, stack, pushed>>

\* expand_iri(&mut active, s, false, true, {}, ...) is called on the string
\* s compaction returned.
ExpandCompacted ==
  /\ call.op = "compact"
  /\ outcome.err = ""
  /\ outcome.json.t = "str"
  /\ InPlaceReturns(
       expand_iri([ctx |-> active, defined |-> NoDefined, err |-> "",
                   ret |-> Tnull, inst |-> NoInst],
                  outcome.json.s, FALSE, TRUE,
                  [TopEnv(Some(DocUrl), call.options) EXCEPT !.lc = <<>>]))
  /\ call' = [call EXCEPT !.op = "reexpand", !.value = outcome.json.s]
  /\ UNCHANGED <<stack, pushed, calls>>

KVocabTerm == Obj2("@vocab", JStr("http://v/"), "t", JStr("http://v/a:b"))
KVocabList ==
  Obj2("@vocab", JStr("http://v/"),
       "lst", Obj2("@id", JStr("http://v/a:b"), "@container", JStr("@list")))
KPrefixList ==
  Obj2("ex", JStr("http://ex/"),
       "n", Obj2("@id", JStr("http://ex/n"), "@container", JStr("@list")))
KSchemeList ==
  Obj2("http", JStr("http://h/"),
       "q", Obj2("@id", JStr("http://q/x"), "@container", JStr("@list")))
KAlias == Obj2("name", JStr("http://a/name"), "kind", JStr("@type"))
KReverse == Obj1("rev", Obj1("@reverse", JStr("http://r")))
KTyped ==
  Obj1("typed", JObj(<< <<"@id", JStr("http://a/t")>>, <<"@type", JStr("@id")>>,
                        <<"@container", JStr("@set")>> >>))
KLanguage ==
  Obj2("en", Obj2("@id", JStr("http://a/l"), "@language", JStr("en")),
       "label", JStr("http://a/l"))

KShortAB == Obj2("a", JStr("http://ex.com/long/"), "b", JStr("http://ex.com/"))
KShortZB == Obj2("z", JStr("http://ex.com/long/"), "b", JStr("http://ex.com/"))
KSchemePlain == Obj1("http", JStr("http://h/x"))

CompactLocals ==
  {KVocabTerm, KVocabList, KPrefixList, KSchemeList, KAlias, KReverse, KTyped,
   KLanguage, KShortAB, KShortZB, KSchemePlain}

CompactVars ==
  {Tiri("http://v/a:b"), Tiri("http://ex/n"), Tiri("http://q/x"),
   Tiri("http://a/name"), Tkw("@type"), Tiri("http://r"), Tiri("http://a/t"),
   Tiri("http://a/l"), Tiri("http://x/n"), Tnull, Unknown("n o"),
   Tiri("http://ex.com/long/x")}

PlainValue == ValueObject("plain", None, None, None, FALSE)
LangValue(index) == ValueObject("langstring", Some("en"), None, None, index)
TypedValue == ValueObject("typed", None, None, Some("http://a/t"), FALSE)

CompactValues ==
  {Some(PlainValue), Some(LangValue(FALSE)), Some(LangValue(TRUE)),
   Some(TypedValue),
   Some(NodeObject(Some(Tiri("http://a/name")), FALSE)),
   Some(NodeObject(None, TRUE)),
   Some(GraphObject(None, FALSE)),
   Some(GraphObject(Some(Tiri("http://a/name")), TRUE)),
   Some(ListObject(<<>>, FALSE)),
   Some(ListObject(<<PlainValue, LangValue(FALSE)>>, FALSE)),
   Some(ListObject(<<TypedValue, TypedValue>>, FALSE)),
   Some(ListObject(<<NodeObject(None, FALSE), TypedValue>>, TRUE))}

\* The calls of compact_iri_full: every var without a value, and the
\* values for the IRIs of the terms they fit.
CompactCalls ==
  {[var |-> var, value |-> None, vocab |-> TRUE, reverse |-> reverse,
    options |-> Options(mode, FALSE, TRUE)] :
     var \in CompactVars, reverse \in BOOLEAN,
     mode \in {"json-ld-1.0", "json-ld-1.1"}}
  \cup
  {[var |-> var, value |-> None, vocab |-> FALSE, reverse |-> FALSE,
    options |-> DefaultOptions] : var \in CompactVars}
  \cup
  {[var |-> var, value |-> value, vocab |-> TRUE, reverse |-> FALSE,
    options |-> DefaultOptions] :
     var \in {Tiri("http://a/l"), Tiri("http://a/t")},
     value \in CompactValues}

\* The orders active_context.definitions() may yield the definitions in
\* that the loop of lines 352-382 acts on, those with a true prefix flag
\* (line 359).
Orders(active_context) ==
  LET terms == {t \in DOMAIN active_context.defs :
                  active_context.defs[t].prefix}
  IN  {order \in [1..Cardinality(terms) -> terms] :
         \A i, j \in 1..Cardinality(terms) : order[i] = order[j] => i = j}

NextCompact ==
  \/ \E local \in CompactLocals : Process(local, DefaultOptions)
  \/ Adopt
  \/ \E c \in CompactCalls : \E order \in Orders(active) :
       Compact(c.var, c.value, c.vocab, c.reverse, c.options, order)
  \/ ExpandCompacted

SpecCompact == Init /\ [][NextCompact]_vars

\* The container mappings compaction prefers when there is no value and
\* reverse is false (lines 219-235).
NoValueContainers(options) ==
  {{"@id"}, {"@id", "@set"}, {"@type"}, {"@set", "@type"}, {"@set"}, {}}
  \cup (IF options.processing_mode # "json-ld-1.0"
          THEN {{"@index"}, {"@index", "@set"}} ELSE {})

\* T is the IRI mapping of a term of the active context.
InInverse(T) == \E t \in DOMAIN active.defs : active.defs[t].value = Some(T)

\* T is the IRI mapping of a term that is not a reverse property, has no
\* type, language or direction mapping, and whose container mapping
\* compaction prefers when there is no value.
TermFitsNoValue(T, options) ==
  \E t \in DOMAIN active.defs :
    /\ active.defs[t].value = Some(T)
    /\ active.defs[t].container \in NoValueContainers(options)
    /\ ~active.defs[t].reverse_property
    /\ ~IsSome(active.defs[t].typ)
    /\ ~IsSome(active.defs[t].language)
    /\ ~IsSome(active.defs[t].direction)

\* The round trip of the last compaction succeeded.
RoundTrip ==
  /\ call.op = "compact" =>
       outcome.err = "" /\ outcome.json.t = "str"
  /\ call.op = "reexpand" =>
       outcome.err = "" /\ outcome.ret = call.var

\* A compaction with vocab = true, no value and reverse = false, or the
\* expansion of its result.
NoValueCompaction ==
  /\ call.op \in {"compact", "reexpand"}
  /\ call.vocab
  /\ ~call.reverse
  /\ ~IsSome(call.object)

EligibleCandidates ==
  {key \o ":" \o StripPrefix(call.var.v, Get(active.defs[key].value).v) :
     key \in {k \in DOMAIN active.defs :
                /\ active.defs[k].prefix
                /\ IsSome(active.defs[k].value)
                /\ StartsWith(call.var.v, Get(active.defs[k].value).v)
                /\ Len(call.var.v) > Len(Get(active.defs[k].value).v)
                /\ LET candidate ==
                         k \o ":" \o
                         StripPrefix(call.var.v, Get(active.defs[k].value).v)
                   IN  \/ candidate \notin DOMAIN active.defs
                       \/ /\ active.defs[candidate].value = Some(call.var)
                          /\ ~IsSome(call.object)}}

\* The candidate of minimal length, the least in byte order among those.
ShortestCandidate ==
  CHOOSE c \in EligibleCandidates :
    \A d \in EligibleCandidates \ {c} :
      Len(c) < Len(d) \/ (Len(c) = Len(d) /\ StrLess(c, d))

\* The last compaction went on to the construction of a compact IRI.
ReachedCandidates ==
  /\ call.op = "compact"
  /\ call.var # Tnull
  /\ ~call.vocab \/ (~InverseHas(active, call.var) /\ ~IsSome(active.vocabulary))

\* C12: a compaction that reaches the construction of a compact IRI returns
\* the shortest eligible candidate, the least in byte order among the
\* shortest, whatever the order the definitions are iterated in.
C12_ShortestCompactIri ==
  (ReachedCandidates /\ EligibleCandidates # {}) =>
    outcome.err = "" /\ outcome.json = JStr(ShortestCandidate)

\* The scheme of the var of the last compaction is a term with a true
\* prefix flag.
SchemeIsPrefixTerm ==
  /\ call.var.k = "iri"
  /\ Scheme(call.var.v) \in DOMAIN active.defs
  /\ active.defs[Scheme(call.var.v)].prefix

\* C13: compaction fails with IRI-confused-with-prefix only when the scheme
\* of the IRI is a term with a true prefix flag, and it does fail then when
\* neither a term nor a compact IRI is produced; a term named like the
\* scheme with a false prefix flag does not cause the error.
C13_ConfusedWithPrefix ==
  call.op = "compact" =>
    /\ outcome.err = "IRI-confused-with-prefix" => SchemeIsPrefixTerm
    /\ (ReachedCandidates /\ EligibleCandidates = {} /\ SchemeIsPrefixTerm)
         => outcome.err = "IRI-confused-with-prefix"

(***************************************************************************)
(* The processing stack on its own: a caller pushes URLs.                  *)
(***************************************************************************)
StackUrls == {UrlSelf, UrlX, UrlY, UrlImp, UrlOk}

\* stack.push(url) is called and returns.
Push(url) ==
  /\ LET p == push(stack, url)
     IN  /\ stack' = p.stack
         /\ outcome' = [NoOutcome EXCEPT !.flag = p.ret]
         /\ pushed' = IF p.ret THEN pushed \cup {url} ELSE pushed
  /\ call' = [NoCall EXCEPT !.op = "push", !.url = url]
  /\ UNCHANGED <<active, calls>>

NextStack == \E url \in StackUrls : Push(url)

SpecStack == Init /\ [][NextStack]_vars

\* What a push does to the stack, as a relation between the state before
\* and the state after.
PushEffect ==
  call'.op = "push" =>
    LET url == call'.url
    IN  /\ outcome'.flag = ~cycle(stack, url)
        /\ ~outcome'.flag => stack' = stack
        /\ outcome'.flag =>
             /\ cycle(stack', url)
             /\ Tail(stack') = stack
             /\ \A u \in StackUrls \ {url} : cycle(stack', u) = cycle(stack, u)

\* C5: push(url) returns false exactly when url is already in the stack and
\* then leaves the stack as it is; a push that returns true adds url on top
\* of the frames already there, so cycle(u) is true exactly for the URLs
\* whose push returned true.
C5_PushIffAbsent ==
  /\ [](\A u \in StackUrls : cycle(stack, u) <=> u \in pushed)
  /\ [][PushEffect]_vars

\* A push was refused while other URLs stay on the stack.
C5_Witness ==
  /\ call.op = "push"
  /\ ~outcome.flag
  /\ Len(stack) >= 2
  /\ call.url \in pushed

(***************************************************************************)
(* The items of a local context: reserved entries, null, strings, arrays,  *)
(* with and without a base URL.                                            *)
(***************************************************************************)
\* process_context(active, local, ProcessingStack::new(), loader, base_url,
\* options) is called with the base URL the caller has, if any, and returns.
ProcessAt(local, base_url, options) ==
  /\ calls < MaxCalls
  /\ ProcessReturns(process_context(active, local,
                                    TopEnv(base_url, options), NoInst))
  /\ call' = [NoCall EXCEPT !.op = "process", !.local = local,
                            !.options = options, !.origin = call.origin,
                            !.base_url = base_url]
  /\ calls' = calls + 1
  /\ UNCHANGED <<stack, pushed>>

LVersion == Obj1("@version", JNum("1.1"))
LVersionPropagate == Obj2("@version", JNum("1.1"), "@propagate", JBool(TRUE))
LPropagateString == Obj1("@propagate", JStr("x"))
LPropagateFalse == Obj2("@propagate", JBool(FALSE), "name", JStr("http://b"))
LVersionImport == Obj2("@import", JNum("5"), "@version", JStr("2"))
LImportBase == Obj2("@base", JNum("5"), "@import", JNum("5"))
LBaseVocab == Obj2("@vocab", JNum("5"), "@base", JNum("5"))
LVocabLanguage == Obj2("@language", JNum("5"), "@vocab", JNum("5"))
LLanguageDirection == Obj2("@direction", JNum("5"), "@language", JNum("5"))
LDirectionTerm == Obj2("name", JNum("5"), "@direction", JNum("5"))
LBase == Obj1("@base", JStr("http://b/"))

\* Maps with reserved entries, alone and as the item of an array.
ReservedLocals ==
  {LVersion, LVersionPropagate, LPropagateString, LPropagateFalse,
   LVersionImport, LImportBase, LBaseVocab, LVocabLanguage,
   LLanguageDirection, LDirectionTerm, LBase}

ReservedCalls ==
  {[local |-> l, base_url |-> Some(DocUrl),
    options |-> Options(mode, FALSE, TRUE)] :
     l \in ReservedLocals \cup {JArr(<<LPropagateString>>),
                                JArr(<<LOther, LVersionPropagate>>)},
     mode \in {"json-ld-1.0", "json-ld-1.1"}}

\* Null items, alone and after maps, with every override_protected and
\* propagate.
NullCalls ==
  {[local |-> l, base_url |-> Some(DocUrl),
    options |-> Options("json-ld-1.1", o, pr)] :
     l \in {JNull, JArr(<<LProtected, JNull>>), JArr(<<LNameB, JNull>>)},
     o \in BOOLEAN, pr \in BOOLEAN}
  \cup {[local |-> LProtected, base_url |-> Some(DocUrl),
         options |-> DefaultOptions]}

\* String items: a relative reference, an absolute IRI and a string that is
\* no IRI reference, with and without a base URL.
StringCalls ==
  {[local |-> JStr(x), base_url |-> b, options |-> DefaultOptions] :
     x \in {"rel", UrlOk, "a b"}, b \in {None, Some(DocUrl)}}

\* Arrays whose string items have later siblings.
SiblingCalls ==
  {[local |-> l, base_url |-> Some(DocUrl), options |-> DefaultOptions] :
     l \in {JArr(<<JStr(UrlOk), LBase>>), JArr(<<JStr(UrlOk), JStr(UrlOk)>>),
            JArr(<<JStr(UrlOk), JNull, JStr(UrlOk)>>),
            JArr(<<LBase, JStr(UrlOk)>>)}}

\* Contexts referenced by URL, from calls with every override_protected and
\* propagate.
RemoteCalls ==
  {[local |-> JStr(u), base_url |-> Some(DocUrl),
    options |-> Options("json-ld-1.1", o, pr)] :
     u \in {UrlOk, UrlRel}, o \in BOOLEAN, pr \in BOOLEAN}

LProtectedLazy ==
  JObj(<< <<"@protected", JBool(TRUE)>>, <<"a", JStr("ex:x")>>,
          <<"ex", JStr("http://ex/")>> >>)
LProtectedEager ==
  JObj(<< <<"@protected", JBool(TRUE)>>, <<"ex", JStr("http://ex/")>>,
          <<"a", JStr("ex:x")>> >>)
LProtectedOptOut ==
  JObj(<< <<"@protected", JBool(TRUE)>>,
          <<"a", Obj2("@id", JStr("http://a/a"), "@protected", JBool(FALSE))>>,
          <<"b", JStr("http://a/b")>> >>)

\* Maps with @protected: true whose terms depend on one another, in both
\* orders, and a term that opts out.
ProtectedCalls ==
  {[local |-> l, base_url |-> Some(DocUrl), options |-> DefaultOptions] :
     l \in {LProtectedLazy, LProtectedEager, LProtectedOptOut}}

ItemCalls ==
  ReservedCalls \cup NullCalls \cup StringCalls \cup SiblingCalls
    \cup RemoteCalls \cup ProtectedCalls

NextItems ==
  \/ \E c \in ItemCalls : ProcessAt(c.local, c.base_url, c.options)
  \/ Adopt

SpecItems == Init /\ [][NextItems]_vars

\* The order in which the reserved entries of a map are said to be examined.
ReservedOrder ==
  <<"@version", "@import", "@base", "@vocab", "@language", "@direction",
    "@propagate">>

\* The error of one reserved entry taken alone, "" when it has none, for
\* values whose validity shows in their JSON type.
EntryError(key, value, mode) ==
  CASE key = "@version" ->
         IF ~(value.t \in {"str", "num"} /\ value.s = "1.1")
           THEN "invalid-version-value"
         ELSE IF mode = "json-ld-1.0" THEN "processing-mode-conflict"
         ELSE ""
    [] key = "@import" ->
         IF mode = "json-ld-1.0" THEN "invalid-context-entry"
         ELSE IF value.t # "str" THEN "invalid-@import-value"
         ELSE ""
    [] key = "@base" ->
         IF value.t \in {"null", "str"} THEN "" ELSE "invalid-base-IRI"
    [] key = "@vocab" ->
         IF value.t \in {"null", "str"} THEN "" ELSE "invalid-vocab-mapping"
    [] key = "@language" ->
         IF value.t \in {"null", "str"} THEN ""
         ELSE "invalid-default-language"
    [] key = "@direction" ->
         IF mode = "json-ld-1.0" THEN "invalid-context-entry"
         ELSE IF value.t \in {"null", "str"} THEN ""
         ELSE "invalid-base-direction"
    [] key = "@propagate" ->
         IF mode = "json-ld-1.0" THEN "invalid-context-entry"
         ELSE IF value.t # "bool" THEN "invalid-propagate-value"
         ELSE ""

RECURSIVE EarliestError(_, _, _)
\* The error of the earliest invalid reserved entry of the map, from the
\* i-th entry of the order on.
EarliestError(context, mode, i) ==
  IF i > Len(ReservedOrder) THEN ""
  ELSE LET value == ObjGet(context, ReservedOrder[i])
       IN  IF IsSome(value) /\ EntryError(ReservedOrder[i], Get(value), mode) # ""
             THEN EntryError(ReservedOrder[i], Get(value), mode)
           ELSE EarliestError(context, mode, i + 1)

\* The map has an @propagate entry that is invalid.
PropagateInvalid(context, mode) ==
  /\ context.t = "obj"
  /\ IsSome(ObjGet(context.m, "@propagate"))
  /\ EntryError("@propagate", Get(ObjGet(context.m, "@propagate")), mode) # ""

\* C15: the call fails with the error of the earliest invalid reserved
\* entry of a context map, in the order @version, @import, @base, @vocab,
\* @language, @direction, @propagate, and a map of a local-context array
\* with an invalid @propagate entry makes the call fail.
C15_ReservedEntryOrder ==
  Processed =>
    /\ (call.local.t = "obj"
        /\ EarliestError(call.local.m, call.options.processing_mode, 1) # "")
       => outcome.err =
            EarliestError(call.local.m, call.options.processing_mode, 1)
    /\ call.local.t = "arr" =>
         \A i \in 1..Len(call.local.m) :
           PropagateInvalid(call.local.m[i], call.options.processing_mode)
             => outcome.err # ""

\* The items of the local context of the call (line 192, as_array).
CallItems == IF call.local.t = "arr" THEN call.local.m ELSE <<call.local>>

\* The last item of the local context of the call is null.
NullLast ==
  /\ Processed
  /\ CallItems # <<>>
  /\ CallItems[Len(CallItems)].t = "null"

\* What the same call returns for the items before the last one: the result
\* built so far when the last item is reached.
Prior ==
  process_context(active, JArr(SubSeq(CallItems, 1, Len(CallItems) - 1)),
                  TopEnv(call.base_url, call.options), NoInst)

RelativeWithoutBase ==
  /\ Processed
  /\ call.local.t = "str"
  /\ IsIriRef(call.local.s)
  /\ ~IsIri(call.local.s)
  /\ ~IsSome(call.base_url)

\* C17: a string item that is a relative reference, in a call without base
\* URL, fails with loading-document-failed and the loader is not called.
C17_RelativeWithoutBase ==
  RelativeWithoutBase =>
    /\ outcome.err = "loading-document-failed"
    /\ outcome.inst.loads = 0

\* The items of the array are null or the URL of the context {name:
\* http://a/name}.
OkOrNull ==
  /\ Processed
  /\ call.local.t = "arr"
  /\ \A i \in 1..Len(call.local.m) : call.local.m[i] \in {JStr(UrlOk), JNull}

\* The number of string items among the items.
Strings(items) == Cardinality({i \in 1..Len(items) : items[i].t = "str"})

\* C18: what an item of an array sees on the stack does not depend on the
\* string items before it: the @base entry of a map after a string item is
\* applied, a URL named twice is dereferenced twice, and the context it
\* names is processed both times.
C18_IndependentSiblings ==
  /\ (Processed /\ call.local = JArr(<<JStr(UrlOk), LBase>>)
        /\ outcome.err = "")
       => Get(outcome.ctx).base_iri = Some("http://b/")
  /\ (OkOrNull /\ outcome.err = "")
       => /\ outcome.inst.loads = Strings(call.local.m)
          /\ call.local.m[Len(call.local.m)] = JStr(UrlOk)
               => "name" \in DOMAIN Get(outcome.ctx).defs

\* The local context of the call is the URL of a document the loader has.
RemoteProcessed ==
  /\ Processed
  /\ call.local.t = "str"
  /\ IsIri(call.local.s)
  /\ CanLoad(call.local.s)

\* The arguments with which a context referenced by URL is said to be
\* processed: the stack holding the URL, the document's URL as base URL,
\* override_protected = false and propagate = true.
RemoteEnv(url, options) ==
  [TopEnv(Some(url), Options(options.processing_mode, FALSE, TRUE)) EXCEPT
     !.rc = <<url>>, !.chain = <<url>>]

\* The loaded context processed with those arguments on the current result.
Direct ==
  process_context(InitialResult(active, call.options.propagate),
                  Documents[call.local.s],
                  RemoteEnv(call.local.s, call.options), NoInst)

OptsOut(value) ==
  /\ value.t = "obj"
  /\ ObjGet(value.m, "@protected") = Some(JBool(FALSE))

\* The call processed a map with @protected: true and succeeded.
ProtectedMapProcessed ==
  /\ Processed
  /\ call.local.t = "obj"
  /\ ObjGet(call.local.m, "@protected") = Some(JBool(TRUE))
  /\ outcome.err = ""

\* C20: after a map with @protected: true is processed, every term it
\* defines is protected unless its own value has @protected: false, whether
\* the loop over the keys defined it or another term defined it first as
\* its dependency.
C20_ProtectedDefault ==
  ProtectedMapProcessed =>
    \A i \in 1..Len(call.local.m) :
      call.local.m[i][1] \notin ReservedKeys =>
        /\ call.local.m[i][1] \in DOMAIN Get(outcome.ctx).defs
        /\ Get(outcome.ctx).defs[call.local.m[i][1]].protected
             = ~OptsOut(call.local.m[i][2])

(***************************************************************************)
(* Term definitions of every form, defined on the caller's context and     *)
(* through Context Processing.                                             *)
(***************************************************************************)
\* A term whose definition has the scoped context `context`.
Scoped(context) == Obj1("t", Obj2("@id", JStr("http://a/t"), "@context", context))

LScopedInvalid == Scoped(Obj1("name", JNum("5")))
LScopedMissing == Scoped(JStr("http://x/none"))
LScopedPropagate == Scoped(Obj1("@propagate", JStr("x")))
LScopedNull == Scoped(JNull)

\* Scoped contexts that process and scoped contexts that fail, each with
\* another error.
ScopedLocals ==
  {LScoped, LScopedInvalid, LScopedMissing, LScopedPropagate, LScopedNull}

\* The term t of the local context of the call, which has an @context
\* entry, has just been defined.
ScopedDefined(c) ==
  /\ c.op = "define"
  /\ c.value = "t"
  /\ c.defined = NoDefined
  /\ c.local \in ScopedLocals

\* The @context entry of the term t of the local context.
ScopedContextOf(local) == Get(ObjGet(Get(ObjGet(local.m, "t")).m, "@context"))

\* Context Processing of that entry against the context `ctx` with
\* override_protected = true.
Validation(ctx, local) ==
  process_context(ctx, ScopedContextOf(local),
                  TopEnv(Some(DocUrl), Options("json-ld-1.1", TRUE, TRUE)),
                  NoInst)

\* What defining t does, given what the validation of its scoped context
\* against the active context (without t) returns.
ScopedEffect(out) ==
  IF out.err # ""
  THEN out.err \notin Aborts => outcome'.err = "invalid-scoped-context"
  ELSE /\ outcome'.err = ""
       /\ [active' EXCEPT !.defs = NoDefinitions]
            = [active EXCEPT !.defs = NoDefinitions]
       /\ \A u \in (DOMAIN active.defs \cup DOMAIN active'.defs) \ {"t"} :
            CtxGet(active', u) = CtxGet(active, u)
       /\ Get(CtxGet(active', "t")).context
            = Some(ScopedContextOf(call'.local))
       /\ Get(CtxGet(active', "t")).base_url = Some(DocUrl)

\* C21: the @context entry of a term definition is processed against the
\* active context with override_protected = true; when that fails with any
\* error code, Create Term Definition fails with invalid-scoped-context;
\* when it succeeds the active context only gains the definition of the
\* term, which holds the @context value as written and the base URL.
C21_ScopedContextValidation ==
  [][ScopedDefined(call') =>
       ScopedEffect(Validation(CtxSet(active, "t", None), call'.local))]_vars

\* A scoped context that redefines a protected term of the active context
\* is accepted and leaves the term as it was.
C21_Witness ==
  /\ ScopedDefined(call)
  /\ call.local = LScoped
  /\ outcome.err = ""
  /\ NameProtectedA(active)
  /\ Get(CtxGet(active, "t")).context = Some(LNameB)

\* Definitions given to Create Term Definition on the caller's context.
LExtraId == Obj1("name", Obj2("@id", JStr("http://a"), "foo", JNum("5")))
LExtraReverse ==
  Obj1("name", Obj2("@reverse", JStr("http://r"), "foo", JNum("5")))
LExtraContainer ==
  Obj1("name", JObj(<< <<"@id", JStr("http://a")>>,
                       <<"@container", JStr("@set")>>, <<"foo", JNum("5")>> >>))

\* Definitions with an entry that is no entry of a term definition.
ExtraKeyLocals == {LExtraId, LExtraReverse, LExtraContainer}

\* The term name defined as the reverse of http://r, with one more entry.
Reverse(key, value) ==
  Obj1("name", Obj2("@reverse", JStr("http://r"), key, value))

LReverseBlank == Obj1("name", Obj1("@reverse", JStr("_:b")))

\* Reverse properties with every kind of container, with @id and with
\* @nest.
ReverseLocals ==
  {LReverse, LReverseBlank, Reverse("@container", JStr("@set")),
   Reverse("@container", JStr("@index")), Reverse("@container", JNull),
   Reverse("@container", JStr("@list")),
   Reverse("@container", JArr(<<JStr("@set")>>)),
   Reverse("@id", JStr("http://a")), Reverse("@nest", JStr("@nest"))}

LKeywordLikeReverse == Obj1("name", Obj1("@reverse", JStr("@foo")))
LKeywordLikeId == Obj1("name", Obj1("@id", JStr("@foo")))
LKeywordLikePrefix == Obj2("a", JStr("@foo"), "name", JStr("a:x"))

\* Definitions whose term or IRI mapping has the form of a keyword.
KeywordLikeLocals ==
  {LKeywordLike, LKeywordLikeReverse, LKeywordLikeId, LKeywordLikePrefix,
   Obj1("@foo", JStr("http://a"))}

\* The term name with an @id entry and an @prefix entry.
Prefixed(id, prefix) == Obj1("name", Obj2("@id", id, "@prefix", prefix))

\* Definitions with @prefix, with an IRI, a keyword and no IRI mapping.
PrefixLocals ==
  {Prefixed(JStr("http://a/"), JBool(TRUE)), Prefixed(JStr("@type"), JBool(TRUE)),
   Prefixed(JNull, JBool(TRUE)), Prefixed(JNull, JBool(FALSE)),
   Prefixed(JStr("http://a/"), JStr("x"))}

DefsInputs ==
  {[local |-> l, term |-> "t", defined |-> NoDefined] : l \in ScopedLocals}
  \cup {[local |-> Obj1("@foo", JStr("http://a")), term |-> "@foo",
          defined |-> NoDefined]}
  \cup {[local |-> l, term |-> "name", defined |-> NoDefined] :
          l \in ExtraKeyLocals \cup ReverseLocals \cup KeywordLikeLocals
                \cup PrefixLocals \cup {LNameB}}

\* Local contexts given to Context Processing.
\* A map that imports the context at `url`.
Import(url) == Obj2("@import", url, "name", JStr("http://b"))

\* Imports of a context map, of a map that imports, of a context that is
\* no map, of no string, and by a relative reference.
ImportLocals ==
  {Import(JStr(UrlVocab)), Import(JStr(UrlNested)), Import(JStr(UrlSelf)),
   Import(JNum("5")), Import(JStr("ok")), Obj1("@import", JStr(UrlVocab))}

LVocabNull == Obj2("@vocab", JStr("http://v/"), "name", JNull)

\* Values given to IRI Expansion, and the local contexts they are expanded
\* with.
DefsValues == {"name", "other", "", "ex:n", "_:b", "@type", "@foo"}

DefsLocals == {LEmpty, LNameB, LExOnly}

DefsCalls ==
  {[local |-> l, base_url |-> Some(DocUrl), options |-> DefaultOptions] :
     l \in {LProtected, LKeywordLikePrefix, LVocabNull} \cup ReverseLocals
             \cup PrefixLocals}
  \cup {[local |-> l, base_url |-> Some(DocUrl),
         options |-> Options(mode, FALSE, TRUE)] :
          l \in ImportLocals, mode \in {"json-ld-1.0", "json-ld-1.1"}}

NextDefs ==
  \/ \E i \in DefsInputs : Define(i.local, i.term, i.defined)
  \/ \E l \in DefsLocals, v \in DefsValues, vocab \in BOOLEAN :
       ExpandIri(l, v, vocab)
  \/ \E c \in DefsCalls : ProcessAt(c.local, c.base_url, c.options)
  \/ Adopt

SpecDefs == Init /\ [][NextDefs]_vars

\* The term just defined has a map value with a key outside the entries of
\* a term definition.
ExtraKeyDefined ==
  /\ call.op = "define"
  /\ call.defined = NoDefined
  /\ IsSome(ObjGet(call.local.m, call.value))
  /\ Get(ObjGet(call.local.m, call.value)).t = "obj"
  /\ ~(ObjKeys(Get(ObjGet(call.local.m, call.value)).m)
         \subseteq TermDefinitionKeys)

\* C22: a term definition value with a key other than @id, @reverse,
\* @container, @context, @direction, @index, @language, @nest, @prefix,
\* @protected, @type fails with invalid-term-definition, definitions with
\* @reverse included, and the term is left without definition.
C22_OtherKeysRejected ==
  ExtraKeyDefined =>
    /\ outcome.err = "invalid-term-definition"
    /\ call.value \notin DOMAIN active.defs

\* Every reverse property of the context has a container mapping within
\* {@set, @index} and an IRI or a blank node identifier as IRI mapping.
ReverseProperties(ctx) ==
  \A t \in DOMAIN ctx.defs :
    ctx.defs[t].reverse_property =>
      /\ ctx.defs[t].container \subseteq {"@set", "@index"}
      /\ IsSome(ctx.defs[t].value)
      /\ Get(ctx.defs[t].value).k \in {"iri", "blank"}

\* The definition has @reverse, an IRI, together with @id, @nest or a
\* container other than @set and @index.
ReverseConflict(value) ==
  /\ value.t = "obj"
  /\ IsSome(ObjGet(value.m, "@reverse"))
  /\ Get(ObjGet(value.m, "@reverse")).t = "str"
  /\ IsIri(Get(ObjGet(value.m, "@reverse")).s)
  /\ \/ IsSome(ObjGet(value.m, "@id"))
     \/ IsSome(ObjGet(value.m, "@nest"))
     \/ /\ IsSome(ObjGet(value.m, "@container"))
        /\ Get(ObjGet(value.m, "@container"))
             \notin {JNull, JStr("@set"), JStr("@index")}

\* The term name of the local context was defined, by define itself or by
\* Context Processing of the map.
NameDefined ==
  /\ \/ call.op = "define" /\ call.value = "name" /\ call.defined = NoDefined
     \/ Processed
  /\ call.local.t = "obj"
  /\ IsSome(ObjGet(call.local.m, "name"))

\* C23: in every active context, and every context a call returns, a
\* reverse property has a container mapping within {@set, @index} and an
\* IRI or blank node identifier as IRI mapping; a definition with @reverse
\* together with @id, @nest or another container fails with
\* invalid-reverse-property.
C23_ReverseProperties ==
  /\ ReverseProperties(active)
  /\ IsSome(outcome.ctx) => ReverseProperties(Get(outcome.ctx))
  /\ (NameDefined /\ ReverseConflict(Get(ObjGet(call.local.m, "name"))))
       => outcome.err = "invalid-reverse-property"

\* A reverse property with a container lives in the active context while
\* one with a list container is refused.
C23_Witness ==
  /\ NameDefined
  /\ call.local = Reverse("@container", JStr("@list"))
  /\ outcome.err = "invalid-reverse-property"
  /\ \E t \in DOMAIN active.defs :
       active.defs[t].reverse_property /\ active.defs[t].container # {}

\* The local context of the call is a map with an @import entry.
ImportProcessed ==
  /\ Processed
  /\ call.local.t = "obj"
  /\ IsSome(ObjGet(call.local.m, "@import"))

\* The shallow merge of the importing map over the imported one, without
\* the @import entry: the members of the importing map, then the members
\* only the imported map has.
ShallowMerge(importing, imported) ==
  SelectSeq(importing, LAMBDA member : member[1] # "@import")
    \o SelectSeq(imported, LAMBDA member : member[1] \notin ObjKeys(importing))

\* The call gives what processing the map `merged` in its place gives.
ProcessedAs(merged) ==
  LET out == process_context(active, JObj(merged),
                             TopEnv(call.base_url, call.options), NoInst)
  IN  /\ outcome.err = out.err
      /\ outcome.err = "" => Get(outcome.ctx) = out.ctx

\* What the @import entry `value` leads to when the loader has the document
\* `url`.
ImportEffect(value, url) ==
  IF call.options.processing_mode = "json-ld-1.0"
    THEN outcome.err = "invalid-context-entry"
  ELSE IF value.t # "str" THEN outcome.err = "invalid-@import-value"
  ELSE IF Documents[url].t # "obj" THEN outcome.err = "invalid-remote-context"
  ELSE IF IsSome(ObjGet(Documents[url].m, "@import"))
    THEN outcome.err = "invalid-context-entry"
  ELSE ProcessedAs(ShallowMerge(call.local.m, Documents[url].m))

\* The document the @import entry names, UrlOk when it is no string.
Imported(value) ==
  IF value.t = "str" THEN Resolved(value.s, DocUrl) ELSE UrlOk

\* C24: in mode 1.1 a map with a string @import is processed as the
\* shallow merge of the map over the imported context map; an imported
\* context with @import fails with invalid-context-entry, an imported
\* context that is no map with invalid-remote-context, an @import that is
\* no string with invalid-@import-value, and @import in mode 1.0 with
\* invalid-context-entry.
C24_Import ==
  ImportProcessed =>
    ImportEffect(Get(ObjGet(call.local.m, "@import")),
                 Imported(Get(ObjGet(call.local.m, "@import"))))

\* The map's own term wins over the imported one, and the imported
\* vocabulary mapping and term are there.
C24_Witness ==
  /\ ImportProcessed
  /\ call.local = Import(JStr(UrlVocab))
  /\ outcome.err = ""
  /\ Get(outcome.ctx).vocabulary = Some(Tiri("http://v/"))
  /\ Get(CtxGet(Get(outcome.ctx), "name")).value = Some(Tiri("http://b"))
  /\ Get(CtxGet(Get(outcome.ctx), "other")).value = Some(Tiri("http://v/rel"))

\* Create Term Definition was called for a term of the local context that
\* `defined` did not hold, nothing being in progress, and returned Ok.
DefinedNow ==
  /\ call.op = "define"
  /\ call.value \in ObjKeys(call.local.m)
  /\ call.value \notin DOMAIN call.defined
  /\ \A t \in DOMAIN call.defined : call.defined[t]
  /\ outcome.err = ""

\* C25: after a call of Create Term Definition that returns Ok, for a term
\* of the local context, the entry of the term in `defined` is true and no
\* entry is false.
C25_DefinedTriState ==
  DefinedNow =>
    /\ call.value \in DOMAIN outcome.defined
    /\ \A t \in DOMAIN outcome.defined : outcome.defined[t]

\* The value expanded, with vocab = true, is a term of the active context
\* defined as null, no key of the local context, and the active context has
\* a vocabulary mapping.
NullTermExpanded ==
  /\ call.op = "expand"
  /\ call.vocab
  /\ call.value \notin ObjKeys(call.local.m)
  /\ IsSome(CtxGet(active, call.value))
  /\ ~IsSome(Get(CtxGet(active, call.value)).value)
  /\ IsSome(active.vocabulary)

\* C26 as stated: for such a term expansion goes on to the vocabulary step
\* and returns the vocabulary mapping followed by the value.
C26_AsStated ==
  NullTermExpanded =>
    /\ outcome.err = ""
    /\ outcome.ret = Tiri(Get(active.vocabulary).v \o call.value)

\* C26: for such a term the term lookup ends the expansion: the value is
\* returned as it is, as no IRI, and the vocabulary mapping is not applied.
C26_NullTermStopsExpansion ==
  NullTermExpanded =>
    /\ outcome.err = ""
    /\ outcome.ret = Unknown(call.value)

C26_Witness ==
  /\ NullTermExpanded
  /\ call.value = "name"
  /\ active.vocabulary = Some(Tiri("http://v/"))
  /\ outcome.ret = Unknown("name")

\* The value expanded is no key of the local context, and neither is its
\* prefix.
NoKeyExpanded ==
  /\ call.op = "expand"
  /\ call.value \notin ObjKeys(call.local.m)
  /\ Find(call.value, ":") > 1 =>
       SubSeq(call.value, 1, Find(call.value, ":") - 1)
         \notin ObjKeys(call.local.m)

\* C28: expanding a value that is no key of the local context, the empty
\* string included, returns a term, never an error, and leaves the active
\* context and the defined map as they were.
C28_NoKeyNoDefinition ==
  [][NoKeyExpanded' =>
       /\ outcome'.err = ""
       /\ active' = active
       /\ outcome'.defined = NoDefined]_vars

\* The term name of the local context was given to Create Term Definition
\* with an @prefix entry.
PrefixDefined ==
  /\ NameDefined
  /\ Get(ObjGet(call.local.m, "name")).t = "obj"
  /\ IsSome(ObjGet(Get(ObjGet(call.local.m, "name")).m, "@prefix"))

\* C29: Create Term Definition ends with Ok or with an error code, never
\* with a panic, for every definition with an @prefix entry, {@id: null,
\* @prefix: true} included.
C29_NoPanic == PrefixDefined => outcome.err # "panic"

(***************************************************************************)
(* IRI Compaction of list values.                                          *)
(***************************************************************************)
\* The longest list compacted.
MaxItems == 3

FrenchValue == ValueObject("langstring", Some("fr"), None, None, FALSE)

\* The items of the lists: a plain literal, strings in two languages, a
\* typed literal and a node.
ListItems ==
  {PlainValue, LangValue(FALSE), FrenchValue, TypedValue,
   NodeObject(None, FALSE)}

Lists == UNION {[1..n -> ListItems] : n \in 1..MaxItems}

\* List terms for the same IRI: one for English strings, one without
\* language or type mapping, one for typed values.
KLists ==
  JObj(<< <<"en", JObj(<< <<"@id", JStr("http://a/l")>>,
                          <<"@container", JStr("@list")>>,
                          <<"@language", JStr("en")>> >>)>>,
          <<"any", Obj2("@id", JStr("http://a/l"), "@container", JStr("@list"))>>,
          <<"typed", JObj(<< <<"@id", JStr("http://a/l")>>,
                             <<"@container", JStr("@list")>>,
                             <<"@type", JStr("http://a/t")>> >>)>> >>)

NextLists ==
  \/ Process(KLists, DefaultOptions)
  \/ Adopt
  \/ \E items \in Lists : \E order \in Orders(active) :
       Compact(Tiri("http://a/l"), Some(ListObject(items, FALSE)), TRUE,
               FALSE, DefaultOptions, order)

SpecLists == Init /\ [][NextLists]_vars

\* A list with items was compacted.
ListCompacted ==
  /\ call.op = "compact"
  /\ IsSome(call.object)
  /\ Get(call.object).kind = "list"
  /\ Get(call.object).items # <<>>

\* The type/language value compaction computes for the list `items`.
Folded(items) == CompactTypeLang(Some(ListObject(items, FALSE)), FALSE)

\* The lists with the items of `items` in another order.
Reordered(items) ==
  {[i \in 1..Len(items) |-> items[p[i]]] :
     p \in {q \in [1..Len(items) -> 1..Len(items)] :
              \A i, j \in 1..Len(items) : q[i] = q[j] => i = j}}

\* The common type as stated: the type all items share, non-value items
\* counting as @id.
StatedType(items) ==
  IF \A i \in 1..Len(items) :
       IsSome(ItemType(items[i])) /\ ItemType(items[i]) = ItemType(items[1])
  THEN ItemType(items[1]) ELSE None

\* The common language/direction as stated: the pair every item carries,
\* (None, None) when two items differ or an item is a typed value or no
\* value object.
StatedLangDir(items) ==
  IF \A i \in 1..Len(items) :
       IsSome(ItemLangDir(items[i]))
       /\ ItemLangDir(items[i]) = ItemLangDir(items[1])
  THEN Get(ItemLangDir(items[1])) ELSE NoLangDir

\* Type selection if and only if there is a common type.
Stated(items) ==
  IF IsSome(StatedType(items)) THEN SelType(Get(StatedType(items)))
  ELSE SelLang(StatedLangDir(items))

\* What compaction of the list `items` returns in place of the list of
\* the call.
CompactedList(items) ==
  compact_iri_full(active, call.var, Some(ListObject(items, FALSE)),
                   call.vocab, call.reverse, call.options, call.order)

\* C27: the type/language value of a list with items is the type selection
\* of the common type if all items share a type, else the language
\* selection of the pair all items carry, (None, None) when they differ or
\* an item is typed or no value object; neither it nor the compacted IRI
\* depends on the order of the items.
C27_ListFolding ==
  ListCompacted =>
    /\ Folded(Get(call.object).items) = Stated(Get(call.object).items)
    /\ \A items \in Reordered(Get(call.object).items) :
         /\ Folded(items) = Folded(Get(call.object).items)
         /\ CompactedList(items).json = outcome.json

(***************************************************************************)
(* The order of the term keys of a context map.                            *)
(***************************************************************************)
\* The maps with the entries of `local`, its term keys in every order and
\* its reserved entries where they are.
KeyOrders(local) ==
  {[local EXCEPT !.m = [i \in 1..Len(local.m) |-> local.m[p[i]]]] :
     p \in {q \in [1..Len(local.m) -> 1..Len(local.m)] :
              /\ \A i, j \in 1..Len(local.m) : q[i] = q[j] => i = j
              /\ \A i \in 1..Len(local.m) :
                   local.m[i][1] \in ReservedKeys => q[i] = i}}

\* The run that returned `out` and the run with outcome `o` both fail, or
\* both succeed with the same term definitions.
SameDefinitions(out, o) ==
  /\ (out.err = "") = (o.err = "")
  /\ o.err = "" => out.ctx.defs = Get(o.ctx).defs

\* C30: processing a context map returns what processing the same map with
\* its term keys in any other order returns on the same active context:
\* both runs fail, or both succeed with the same definition for every term.
C30_KeyOrderIndependence ==
  [][(Processed' /\ call'.local.t = "obj") =>
       \A local \in KeyOrders(call'.local) :
         SameDefinitions(process_context(active, local,
                                         TopEnv(call'.base_url, call'.options),
                                         NoInst),
                         outcome')]_vars

====
